---- MODULE Spec2Model ----
(***************************************************************************)
(* A model of the loggable dispatch engine: the drop-oldest ring buffer    *)
(* (include/loggable_ringbuffer.hpp), the OS backend seam                  *)
(* (src/loggable_os.cpp) and the Sinker hub (include/loggable.hpp,         *)
(* src/loggable.cpp).                                                      *)
(*                                                                         *)
(* A log record is [id, level, src]: its severity, the producer thread     *)
(* that built it (its tag) and an identity standing for its message text.  *)
(* A sink's consume(record) is recorded as one entry [sink, m] appended to *)
(* the sequence events.                                                    *)
(***************************************************************************)
EXTENDS Integers, Sequences, FiniteSets, TLC

VARIABLES
    g_backend,          \* os::g_backend is non-null
    Capacity,           \* the RingBuffer's Capacity template argument
    sinkers,            \* Sinker::_sinkers, in registration order
    global_level,       \* Sinker::_global_level
    mutex,              \* holder of the sink-registry mutex, 0 when free
    queue,              \* Sinker::_queue: a ring buffer, or NoQueue
    running,            \* Sinker::_running
    shutdown_requested, \* Sinker::_shutdown_requested
    task,               \* Sinker::_task: TRUE while it holds a valid handle
    pc,                 \* control point of each API thread
    msg,                \* the record each API thread holds
    wpc,                \* control point of the worker task
    wmsg,               \* the record the worker holds
    wdrain,             \* the worker has left its main loop (final drain)
    events,             \* every consume call so far: <<[sink, m], ...>>
    nextId,             \* identity of the next record built
    popped,             \* records returned by direct pops on the queue
    uaf,                \* a thread has used the queue outside its lifetime
    ninit,              \* init calls that won the compare-and-swap so far
    last_add,           \* the latest add_sinker call not yet followed by a
                        \* remove_sinker: [s, before], or NoAdd
    sent,               \* the dispatch calls since the last clear: the record
                        \* and the threshold in force at the call
    at_shutdown,        \* the records the queue held, oldest first, when the
                        \* latest shutdown call saw the running flag set
    last_ret,           \* how the latest init, shutdown or flush call
                        \* returned
    push_rets,          \* the return values of the direct push calls on
                        \* the queue, in call order
    at_flush,           \* the queue's contents when flush was last called
    esp_log_hook_installed, \* the native-log hook is installed
    original_vprintf,   \* the saved prior native-log handler, nullptr
                        \* when there is none
    vprintf_handler,    \* the handler the platform calls for native-log
                        \* output (what esp_log_set_vprintf last set)
    is_logging,         \* vprintf_hook's thread_local guard flag
    log_buffer,         \* ThreadBufferState::log_buffer of each thread
    buffering_log,      \* ThreadBufferState::buffering_log of each thread
    formatted_message,  \* the fragment the hook call of each thread works on
    forwarded,          \* the calls of the prior handler: <<[thr, line], ...>>
    ingested,           \* the records dispatch_from_hook has built
    hook_ret,           \* the return value of each thread's latest hook
                        \* call, NoRet before the first
    nested_calls,       \* hook calls made from inside a hook call so far
    hook_in,            \* the outermost hook calls so far: <<[thr, line], ...>>
    last_call,          \* the latest add_sinker or remove_sinker call:
                        \* [op, s, before], or NoCall
    sinker_it,          \* per thread, the position of the fan-out loop
                        \* over _sinkers
    last_hook_call,     \* the latest hook_esp_log call, or NoCall
    handler_before      \* the platform handler before the first install call

\* groups of variables, for UNCHANGED
confVars == <<g_backend, Capacity>>
hubVars == <<queue, running, shutdown_requested, task>>
workerVars == <<wpc, wmsg, wdrain>>
histVars ==
    <<popped, uaf, ninit, last_add, at_shutdown, last_ret, push_rets,
      at_flush,
      last_call,
      sinker_it,
      last_hook_call,
      handler_before>>

hookVars ==
    <<esp_log_hook_installed, original_vprintf, vprintf_handler, is_logging,
      log_buffer,
      buffering_log, formatted_message, forwarded, ingested, hook_ret,
      nested_calls, hook_in>>

vars == <<g_backend, Capacity, sinkers, global_level, mutex, queue, running,
          shutdown_requested, task, pc, msg, wpc, wmsg, wdrain, events,
          nextId, popped, uaf, ninit, last_add, sent, at_shutdown, last_ret,
          push_rets,
          at_flush, hookVars,
          last_call,
          sinker_it,
          last_hook_call,
          handler_before>>

----------------------------------------------------------------------------
(* Bounds of the model *)

\* capacity of the queue in the concurrent specification
SmallCap == 1
\* API threads of the concurrent specification
NumThreads == 2
\* records built in the concurrent specification
MaxDispatch == 2
\* init calls that may start async mode in the concurrent specification
MaxInit == 2
\* worker tasks that can be alive at once
MaxWorkers == 1
\* dispatch calls in the stalled-worker specification SpecStall
MaxStallDispatch == 4

\* dispatch calls in the specification SpecAsyncLevel
MaxAsyncDispatch == 2

\* dispatch calls in the specification SpecFlush
MaxFlushDispatch == 3

\* dispatch and log calls in the specification SpecLog
MaxLogDispatch == 3

\* hook calls in the adapter specification SpecHook
MaxHookCalls == 2

\* outermost and nested hook calls in the specification SpecHookGuard
MaxGuardCalls == 2
MaxNested == 2

\* registry entries in the specification SpecRegistry
MaxRegSinkers == 3

\* push calls and pop returns in the ring-buffer specification SpecRing
MaxRingPush == 5
MaxRingPop == 4
\* SpecStop: dispatch calls and init calls
MaxStopDispatch == 1
MaxStopInit == 2
\* SpecHookRace: native-log lines written and dispatch calls
MaxRaceLines == 2
MaxRaceDispatch == 2
\* SpecSnapshot: dispatch calls and registry length
MaxSnapDispatch == 2
MaxSnapSinkers == 2
\* SpecHookInstall: native-log lines written
MaxInstallLines == 1
\* dispatch calls in the synchronous specification
MaxSyncDispatch == 3
\* registry entries in the synchronous specification
MaxSinkers == 2
\* consume calls a sink keeps between two clears
MaxEvents == 2
\* number of dispatch calls in the overflow specification SpecQ
MaxPush == 100
\* largest small capacity tried by SpecQ beside QUEUE_CAPACITY
MaxCap == 3

(* Program constants *)

\* Sinker::QUEUE_CAPACITY
QUEUE_CAPACITY == 64

\* LogLevel, in declaration order
None == 0
Error == 1
Warning == 2
Info == 3
Debug == 4
Verbose == 5
LogLevel == None..Verbose

NoQueue == [none |-> TRUE]

\* a default-constructed LogMessage: level None, empty tag, empty message
NoMsg == [id |-> 0, level |-> None, src |-> 0]

LogMessage(id, level, src) == [id |-> id, level |-> level, src |-> src]

----------------------------------------------------------------------------
(* loggable_os.cpp *)

\* a lookup that falls back on a built-in backend when none is registered
get_backend_with_default == TRUE

\* os::get_backend(): the registered backend, null when there is none
get_backend == g_backend

----------------------------------------------------------------------------
(* RingBuffer<T, Capacity>.  A queue value q holds the fields of the       *)
(* class; q.sem is the binary semaphore (1: signalled), used only when     *)
(* q.backend.                                                              *)

RingBuffer(backend) ==
    [buffer |-> [i \in 0..(Capacity - 1) |-> NoMsg],
     head |-> 0, tail |-> 0, count |-> 0, dropped_count |-> 0,
     backend |-> backend, sem |-> 0]

\* semaphore_give on a binary semaphore
semaphore_give(q) == IF q.backend THEN [q EXCEPT !.sem = 1] ELSE q

\* a push that keeps the old records and rejects the new one when full
push_drop_newest(q, item) ==
    IF q.count = Capacity
    THEN semaphore_give([q EXCEPT !.dropped_count = q.dropped_count + 1])
    ELSE semaphore_give([q EXCEPT !.buffer[q.head] = item,
                                  !.head = (q.head + 1) % Capacity,
                                  !.count = q.count + 1])

\* a push that overwrites the oldest slot of a full queue and leaves tail
\* where it was
push_keep_tail(q, item) ==
    LET q1 == IF q.count = Capacity
              THEN [q EXCEPT !.count = q.count - 1,
                             !.dropped_count = q.dropped_count + 1]
              ELSE q
        q2 == [q1 EXCEPT !.buffer[q1.head] = item,
                         !.head = (q1.head + 1) % Capacity,
                         !.count = q1.count + 1]
    IN  semaphore_give(q2)

\* the queue after push(item)
push(q, item) ==
    LET q1 == IF q.count = Capacity
              THEN [q EXCEPT !.tail = (q.tail + 1) % Capacity,
                             !.count = q.count - 1,
                             !.dropped_count = q.dropped_count + 1]
              ELSE q
        q2 == [q1 EXCEPT !.buffer[q1.head] = item,
                         !.head = (q1.head + 1) % Capacity,
                         !.count = q1.count + 1]
    IN  semaphore_give(q2)

\* a return value that is true when a record was dropped
push_result_dropped(q) == q.count = Capacity

\* push's return value on entry state q: false when the oldest record was
\* dropped
push_result(q) == q.count # Capacity

\* the LogMessage left in a slot after std::move: the level is copied, the
\* strings are moved out
MovedFrom(m) == [id |-> 0, level |-> m.level, src |-> 0]

\* pop, first part: whether semaphore_take succeeds (no wait when there is
\* no backend)
pop_take_ok(q) == ~q.backend \/ q.sem = 1

\* the queue after a successful semaphore_take
pop_take(q) == IF q.backend THEN [q EXCEPT !.sem = 0] ELSE q

\* a pop that hands out the newest record
pop_item_newest(q) ==
    IF q.count = 0 THEN NoMsg ELSE q.buffer[(q.head + Capacity - 1) % Capacity]

\* pop, second part (under the queue's mutex): the record returned, NoMsg
\* standing for nullopt
pop_item(q) == IF q.count = 0 THEN NoMsg ELSE q.buffer[q.tail]

\* a pop that does not give the semaphore back when records remain
pop_locked_no_resignal(q) ==
    IF q.count = 0 THEN q
    ELSE [q EXCEPT !.buffer[q.tail] = MovedFrom(q.buffer[q.tail]),
                   !.tail = (q.tail + 1) % Capacity,
                   !.count = q.count - 1]

\* pop, second part: the queue afterwards
pop_locked(q) ==
    IF q.count = 0 THEN q
    ELSE LET q1 == [q EXCEPT !.buffer[q.tail] = MovedFrom(q.buffer[q.tail]),
                             !.tail = (q.tail + 1) % Capacity,
                             !.count = q.count - 1]
         IN  IF q1.count > 0 THEN semaphore_give(q1) ELSE q1

empty(q) == q.count = 0
size(q) == q.count
dropped_count(q) == q.dropped_count
signal(q) == semaphore_give(q)

\* the records a queue holds, oldest first
Contents(q) ==
    [i \in 1..q.count |-> q.buffer[(q.tail + i - 1) % Capacity]]

----------------------------------------------------------------------------
(* Sinker: the registry and the fan-out (src/loggable.cpp) *)

\* a comparison that also lets the next more verbose severity through
is_log_level_enabled_off_by_one(message_level, level) ==
    message_level <= level + 1

is_log_level_enabled(message_level, level) == message_level <= level

\* a fan-out that walks the registry from its newest entry
FanOut_reversed(m) ==
    IF is_log_level_enabled(m.level, global_level)
    THEN [i \in 1..Len(sinkers) |->
             [sink |-> sinkers[Len(sinkers) + 1 - i], m |-> m]]
    ELSE <<>>

\* the consume calls _dispatch_internal(m) makes, in order; entry 0 of the
\* registry would be a null pointer and is skipped
FanOut(m) ==
    IF is_log_level_enabled(m.level, global_level)
    THEN LET live == SelectSeq(sinkers, LAMBDA s : s # 0)
         IN  [i \in 1..Len(live) |-> [sink |-> live[i], m |-> m]]
    ELSE <<>>

\* a fan-out that returns without calling any sink
dispatch_internal_skip(m) == events' = events

dispatch_internal(m) == events' = events \o FanOut(m)

\* an erase that removes only the first entry equal to s
erase_first(seq, s) ==
    IF \E i \in 1..Len(seq) : seq[i] = s
    THEN LET k == CHOOSE i \in 1..Len(seq) :
                      seq[i] = s /\ \A j \in 1..(i - 1) : seq[j] # s
         IN  [i \in 1..(Len(seq) - 1) |-> IF i < k THEN seq[i] ELSE seq[i + 1]]
    ELSE seq

\* std::erase(seq, s): every entry equal to s is removed
erase(seq, s) == SelectSeq(seq, LAMBDA x : x # s)

----------------------------------------------------------------------------
(* API threads.  pc[t] is "idle" between calls. *)

Threads == 1..NumThreads
Workers == 1..MaxWorkers
\* a worker as a holder of the registry mutex
WorkerId(w) == NumThreads + w

\* no hook call has returned yet
NoRet == -1

\* no add_sinker or remove_sinker call has been made
NoCall == [none |-> TRUE]

NoAdd == [none |-> TRUE]

\* Sinker::dispatch chooses the queue while async mode is active
async_active == running /\ queue # NoQueue

\* dispatch(message), entry: the record is built by the caller; the call
\* either goes to the queue or to the registry mutex
DispatchCall(t, level) ==
    /\ pc[t] = "idle"
    /\ msg' = [msg EXCEPT ![t] = LogMessage(nextId, level, t)]
    /\ nextId' = nextId + 1
    /\ pc' = [pc EXCEPT ![t] = IF async_active THEN "push" ELSE "lock"]
    /\ sent' = Append(sent, [m |-> LogMessage(nextId, level, t),
                             thr |-> global_level])
    /\ UNCHANGED <<confVars, hubVars, workerVars, histVars, sinkers,
                   global_level, mutex, events, hookVars>>

\* dispatch, async branch: _queue->push(message)
DispatchPush(t) ==
    /\ pc[t] = "push"
    /\ IF queue = NoQueue
       THEN uaf' = TRUE /\ UNCHANGED queue
       ELSE queue' = push(queue, msg[t]) /\ UNCHANGED uaf
    /\ pc' = [pc EXCEPT ![t] = "idle"]
    /\ msg' = [msg EXCEPT ![t] = NoMsg]
    /\ UNCHANGED <<sent, confVars, workerVars, sinkers, global_level, mutex,
                   running, shutdown_requested, task, events, nextId,
                   popped, ninit, last_add, at_shutdown, last_ret,
                   push_rets, at_flush, hookVars, last_call, sinker_it,
                   last_hook_call, handler_before>>

\* _dispatch_internal, one pass of the loop over _sinkers, taken with the
\* mutex held: the entry at the loop position consumes the record when it
\* is not null.  (DispatchFanout is the whole loop and the release of the
\* lock in one step.)
DispatchConsume(t) ==
    /\ pc[t] = "fanout"
    /\ is_log_level_enabled(msg[t].level, global_level)
    /\ sinker_it[t] <= Len(sinkers)
    /\ events' = IF sinkers[sinker_it[t]] # 0
                 THEN Append(events, [sink |-> sinkers[sinker_it[t]],
                                      m |-> msg[t]])
                 ELSE events
    /\ sinker_it' = [sinker_it EXCEPT ![t] = sinker_it[t] + 1]
    /\ UNCHANGED <<sent, confVars, hubVars, workerVars, sinkers,
                   global_level, mutex, pc, msg, nextId, popped, uaf, ninit,
                   last_add, at_shutdown, last_ret, push_rets, at_flush,
                   last_call, hookVars, last_hook_call, handler_before>>

\* _dispatch_internal returns, the severity being filtered out or the loop
\* having reached the end of _sinkers; dispatch releases the lock_guard
DispatchReturn(t) ==
    /\ pc[t] = "fanout"
    /\ \/ ~is_log_level_enabled(msg[t].level, global_level)
       \/ sinker_it[t] > Len(sinkers)
    /\ mutex' = 0
    /\ pc' = [pc EXCEPT ![t] = "idle"]
    /\ msg' = [msg EXCEPT ![t] = NoMsg]
    /\ sinker_it' = [sinker_it EXCEPT ![t] = 1]
    /\ UNCHANGED <<sent, confVars, hubVars, workerVars, sinkers,
                   global_level, events, nextId, popped, uaf, ninit,
                   last_add, at_shutdown, last_ret, push_rets, at_flush,
                   last_call, hookVars, last_hook_call, handler_before>>

\* dispatch, sync branch: std::lock_guard lock(_mutex)
DispatchLock(t) ==
    /\ pc[t] = "lock"
    /\ mutex = 0
    /\ mutex' = t
    /\ pc' = [pc EXCEPT ![t] = "fanout"]
    /\ UNCHANGED <<sent, confVars, hubVars, workerVars, histVars, sinkers,
                   global_level, msg, events, nextId, hookVars>>

\* dispatch, sync branch: _dispatch_internal(message), then the lock_guard
\* is released and the call returns (the caller's record is gone)
DispatchFanout(t) ==
    /\ pc[t] = "fanout"
    /\ dispatch_internal(msg[t])
    /\ mutex' = 0
    /\ pc' = [pc EXCEPT ![t] = "idle"]
    /\ msg' = [msg EXCEPT ![t] = NoMsg]
    /\ UNCHANGED <<sent, confVars, hubVars, workerVars, histVars, sinkers,
                   global_level, nextId, hookVars>>

\* an add_sinker that does not test its argument
add_sinker_unchecked(t, s) ==
    /\ pc[t] = "idle"
    /\ mutex = 0
    /\ sinkers' = Append(sinkers, s)
    /\ last_add' = [s |-> s, before |-> sinkers]
    /\ last_call' = [op |-> "add", s |-> s, before |-> sinkers]
    /\ UNCHANGED <<sent, confVars, hubVars, workerVars, global_level, mutex,
                   pc, msg, events, nextId, popped, uaf, ninit, at_shutdown,
                   last_ret, push_rets, at_flush, hookVars, sinker_it,
                   last_hook_call, handler_before>>

\* add_sinker(sinker); sinker 0 is a null pointer
add_sinker(t, s) ==
    /\ pc[t] = "idle"
    /\ IF s # 0
       THEN /\ mutex = 0
            /\ sinkers' = Append(sinkers, s)
            /\ last_add' = [s |-> s, before |-> sinkers]
       ELSE UNCHANGED <<sinkers, last_add>>
    /\ last_call' = [op |-> "add", s |-> s, before |-> sinkers]
    /\ UNCHANGED <<sent, confVars, hubVars, workerVars, global_level, mutex,
                   pc, msg, events, nextId, popped, uaf, ninit, at_shutdown,
                   last_ret, push_rets, at_flush, hookVars, sinker_it,
                   last_hook_call, handler_before>>

\* remove_sinker(sinker): std::erase(_sinkers, sinker)
\* a remove_sinker that erases without taking the mutex
remove_sinker_unlocked(t, s) ==
    /\ pc[t] = "idle"
    /\ IF s # 0
       THEN /\ sinkers' = erase(sinkers, s)
            /\ last_add' = NoAdd
       ELSE UNCHANGED <<sinkers, last_add>>
    /\ last_call' = [op |-> "remove", s |-> s, before |-> sinkers]
    /\ UNCHANGED <<sent, confVars, hubVars, workerVars, global_level, mutex,
                   pc, msg, events, nextId, popped, uaf, ninit, at_shutdown,
                   last_ret, push_rets, at_flush, hookVars, sinker_it,
                   last_hook_call, handler_before>>

remove_sinker(t, s) ==
    /\ pc[t] = "idle"
    /\ IF s # 0
       THEN /\ mutex = 0
            /\ sinkers' = erase(sinkers, s)
            /\ last_add' = NoAdd
       ELSE UNCHANGED <<sinkers, last_add>>
    /\ last_call' = [op |-> "remove", s |-> s, before |-> sinkers]
    /\ UNCHANGED <<sent, confVars, hubVars, workerVars, global_level, mutex,
                   pc, msg, events, nextId, popped, uaf, ninit, at_shutdown,
                   last_ret, push_rets, at_flush, hookVars, sinker_it,
                   last_hook_call, handler_before>>

\* get_level()
get_level == global_level

\* Logger::log(level, message): nothing happens when the level is not
\* enabled; otherwise the record is built and passed to Sinker::dispatch
Logger_log(t, level) ==
    IF is_log_level_enabled(level, get_level)
    THEN DispatchCall(t, level)
    ELSE pc[t] = "idle" /\ UNCHANGED vars

\* set_level(level), under the registry mutex
set_level(t, level) ==
    /\ pc[t] = "idle"
    /\ mutex = 0
    /\ global_level' = level
    /\ UNCHANGED <<sent, confVars, hubVars, workerVars, histVars, sinkers,
                   mutex,
                   pc, msg, events, nextId, hookVars>>

\* os::set_backend(backend)
set_backend(b) ==
    /\ g_backend' = b
    /\ UNCHANGED <<sent, Capacity, hubVars, workerVars, histVars, sinkers,
                   global_level, mutex, pc, msg, events, nextId, hookVars>>

\* TestSink::clear(), for every sink: the captured consume calls are
\* forgotten
clear ==
    /\ events # <<>> \/ sent # <<>>
    /\ \A t \in Threads : pc[t] = "idle"
    /\ events' = <<>>
    /\ sent' = <<>>
    /\ UNCHANGED <<confVars, hubVars, workerVars, histVars, sinkers,
                   global_level, mutex, pc, msg, nextId, hookVars>>

----------------------------------------------------------------------------
(* The native-log adapter: vprintf_hook and Sinker::dispatch_from_hook     *)
(* (src/loggable.cpp).  A string is a sequence of characters, each a       *)
(* one-character string; positions count from 0 as in the code.           *)

\* the escape character (27) and the newline
ESC == "ESC"
NL == "\n"

\* std::string::npos
npos == -1

\* s[i]
at(s, i) == s[i + 1]

\* s.find(pat, pos): the first position from pos on where pat occurs
find(s, pat, pos) ==
    IF pos = npos THEN npos
    ELSE LET hits == {i \in pos..(Len(s) - Len(pat)) :
                         SubSeq(s, i + 1, i + Len(pat)) = pat}
         IN  IF hits = {} THEN npos
             ELSE CHOOSE i \in hits : \A j \in hits : i <= j

\* s.substr(pos) and s.substr(pos, n)
substr(s, pos) == SubSeq(s, pos + 1, Len(s))
substr_n(s, pos, n) == SubSeq(s, pos + 1, pos + n)

\* s.erase(pos, n)
str_erase(s, pos, n) == SubSeq(s, 1, pos) \o SubSeq(s, pos + n + 1, Len(s))

\* "\033[0;" and "\033[0m"
color_start == <<ESC, "[", "0", ";">>
color_reset == <<ESC, "[", "0", "m">>

\* the first loop: every "\033[0;" up to the next 'm' is removed
RECURSIVE strip_color_start(_)
strip_color_start(s) ==
    LET start_pos == find(s, color_start, 0)
        end_pos == find(s, <<"m">>, start_pos)
    IN  IF start_pos = npos \/ end_pos = npos THEN s
        ELSE strip_color_start(str_erase(s, start_pos, end_pos - start_pos + 1))

\* the second loop: every "\033[0m" is removed
RECURSIVE strip_color_reset(_)
strip_color_reset(s) ==
    LET reset_pos == find(s, color_reset, 0)
    IN  IF reset_pos = npos THEN s
        ELSE strip_color_reset(str_erase(s, reset_pos, 4))

\* the trailing newline is removed if present
pop_newline(s) ==
    IF s # <<>> /\ s[Len(s)] = NL THEN SubSeq(s, 1, Len(s) - 1) ELSE s

\* the message without colour encoding and trailing newline
strip(s) == pop_newline(strip_color_reset(strip_color_start(s)))

is_color_start(s) == Len(s) >= 2 /\ at(s, 0) = ESC

is_color_end(s) ==
    \/ find(s, color_reset, 0) # npos
    \/ (Len(s) > 0 /\ s[Len(s)] = NL)

\* the severity a level letter stands for
LevelLetters == {"E", "W", "I", "D", "V"}
LevelOf(ch) ==
    CASE ch = "E" -> Error
      [] ch = "W" -> Warning
      [] ch = "I" -> Info
      [] ch = "D" -> Debug
      [] ch = "V" -> Verbose

\* dispatch_from_hook(message): the record it builds; the record's text is
\* the payload and its source the tag
log_msg(message) ==
    IF Len(message) > 4 /\ at(message, 1) = " "
                        /\ at(message, 0) \in LevelLetters
    THEN LET level == LevelOf(at(message, 0))
             tag_start == find(message, <<"(">>, 0)
             tag_end == find(message, <<")">>, tag_start)
             payload_start == find(message, <<":">>, tag_end)
         IN  IF /\ tag_end # npos
                /\ payload_start # npos
                /\ tag_end + 1 < Len(message)
             THEN LET tag_text_start == tag_end + 2
                      tag == IF /\ at(message, tag_end + 1) = " "
                                /\ tag_text_start < payload_start
                             THEN substr_n(message, tag_text_start,
                                           payload_start - tag_text_start)
                             ELSE <<>>
                      payload_text_start == payload_start + 2
                      payload == IF payload_text_start < Len(message)
                                 THEN substr(message, payload_text_start)
                                 ELSE <<>>
                  IN  LogMessage(payload, level, tag)
             ELSE LogMessage(message, level, <<>>)
    ELSE LogMessage(message, Info, <<>>)

\* a null handler pointer
nullptr == 0
\* the platform's default handler (vprintf), a handler of the application,
\* and the adapter's own vprintf_hook
Vprintf == 1
AppHandler == 2
VprintfHook == 3
Handlers == {nullptr, Vprintf, AppHandler}
\* handler_before when no install call has been made
NoHandler == -1

\* esp_log_set_vprintf(h), called by the application itself
esp_log_set_vprintf(t, h) ==
    /\ pc[t] = "idle"
    /\ vprintf_handler' = h
    /\ UNCHANGED <<confVars, hubVars, workerVars, histVars, sinkers,
                   global_level, mutex, pc, msg, events, nextId, sent,
                   esp_log_hook_installed, original_vprintf, is_logging,
                   log_buffer, buffering_log, formatted_message, forwarded,
                   ingested, hook_ret, nested_calls, hook_in>>

\* an install that does not test whether the hook is installed already
hook_esp_log_overwrites(t, install) ==
    /\ pc[t] = "idle"
    /\ mutex = 0
    /\ IF install
       THEN /\ original_vprintf' = vprintf_handler
            /\ vprintf_handler' = VprintfHook
            /\ esp_log_hook_installed' = TRUE
       ELSE IF esp_log_hook_installed
       THEN /\ vprintf_handler' = original_vprintf
            /\ original_vprintf' = nullptr
            /\ esp_log_hook_installed' = FALSE
       ELSE UNCHANGED <<original_vprintf, vprintf_handler,
                        esp_log_hook_installed>>
    /\ last_hook_call' = [install |-> install,
                          installed |-> esp_log_hook_installed,
                          saved |-> original_vprintf,
                          handler |-> vprintf_handler]
    /\ handler_before' = IF install /\ handler_before = NoHandler
                         THEN vprintf_handler
                         ELSE handler_before
    /\ UNCHANGED <<confVars, hubVars, workerVars, sinkers, global_level,
                   mutex, pc, msg, events, nextId, sent, popped, uaf, ninit,
                   last_add, at_shutdown, last_ret, push_rets, at_flush,
                   last_call, sinker_it, is_logging, log_buffer,
                   buffering_log, formatted_message, forwarded, ingested,
                   hook_ret, nested_calls, hook_in>>

\* hook_esp_log(install), under the registry mutex.  Install, when not
\* installed: esp_log_set_vprintf(&vprintf_hook), whose return value, the
\* handler it replaced, is saved.  Uninstall, when installed: the saved
\* handler is set again and the saved pointer cleared.
hook_esp_log(t, install) ==
    /\ pc[t] = "idle"
    /\ mutex = 0
    /\ IF install /\ ~esp_log_hook_installed
       THEN /\ original_vprintf' = vprintf_handler
            /\ vprintf_handler' = VprintfHook
            /\ esp_log_hook_installed' = TRUE
       ELSE IF ~install /\ esp_log_hook_installed
       THEN /\ vprintf_handler' = original_vprintf
            /\ original_vprintf' = nullptr
            /\ esp_log_hook_installed' = FALSE
       ELSE UNCHANGED <<original_vprintf, vprintf_handler,
                        esp_log_hook_installed>>
    /\ last_hook_call' = [install |-> install,
                          installed |-> esp_log_hook_installed,
                          saved |-> original_vprintf,
                          handler |-> vprintf_handler]
    /\ handler_before' = IF install /\ handler_before = NoHandler
                         THEN vprintf_handler
                         ELSE handler_before
    /\ UNCHANGED <<confVars, hubVars, workerVars, sinkers, global_level,
                   mutex, pc, msg, events, nextId, sent, popped, uaf, ninit,
                   last_add, at_shutdown, last_ret, push_rets, at_flush,
                   last_call, sinker_it, is_logging, log_buffer,
                   buffering_log, formatted_message, forwarded, ingested,
                   hook_ret, nested_calls, hook_in>>

\* Sinker::~Sinker(): the hook is removed if it is still installed
Sinker_dtor(t) ==
    IF esp_log_hook_installed THEN hook_esp_log(t, FALSE) ELSE UNCHANGED vars

\* vprintf_hook(format, args), entry: a call made while the thread is
\* already inside the hook returns 0 at once; otherwise the guard flag is
\* set.  line is what format and args expand to.
vprintf_hook(t, line) ==
    /\ esp_log_hook_installed
    /\ pc[t] \in {"idle", "hk_forward", "hk_consume"}
    /\ IF is_logging[t]
       THEN /\ hook_ret' = [hook_ret EXCEPT ![t] = 0]
            /\ nested_calls' = nested_calls + 1
            /\ UNCHANGED <<is_logging, formatted_message, hook_in, pc>>
       ELSE /\ pc[t] = "idle"
            /\ is_logging' = [is_logging EXCEPT ![t] = TRUE]
            /\ formatted_message' = [formatted_message EXCEPT ![t] = line]
            /\ hook_in' = Append(hook_in, [thr |-> t, line |-> line])
            /\ pc' = [pc EXCEPT ![t] = "hk_forward"]
            /\ UNCHANGED <<hook_ret, nested_calls>>
    /\ UNCHANGED <<confVars, hubVars, workerVars, histVars, sinkers,
                   global_level, mutex, msg, events, nextId, sent,
                   esp_log_hook_installed, original_vprintf,
                   vprintf_handler, log_buffer,
                   buffering_log, forwarded, ingested>>

\* the line is passed to the prior handler, when there is one
HookForward(t) ==
    /\ pc[t] = "hk_forward"
    /\ forwarded' =
           IF original_vprintf # nullptr
           THEN Append(forwarded, [thr |-> t, line |-> formatted_message[t]])
           ELSE forwarded
    /\ pc' = [pc EXCEPT ![t] = "hk_format"]
    /\ UNCHANGED <<confVars, hubVars, workerVars, histVars, sinkers,
                   global_level, mutex, msg, events, nextId, sent,
                   esp_log_hook_installed, original_vprintf,
                   vprintf_handler, is_logging,
                   log_buffer, buffering_log, formatted_message, ingested,
                   hook_ret, nested_calls, hook_in>>

\* a formatting error that returns with the guard flag still set
HookFormatError_keeps_flag(t) ==
    /\ pc[t] = "hk_format"
    /\ hook_ret' = [hook_ret EXCEPT ![t] = 0]
    /\ pc' = [pc EXCEPT ![t] = "idle"]
    /\ UNCHANGED <<confVars, hubVars, workerVars, histVars, sinkers,
                   global_level, mutex, msg, events, nextId, sent,
                   esp_log_hook_installed, original_vprintf,
                   vprintf_handler, is_logging,
                   log_buffer, buffering_log, formatted_message, forwarded,
                   ingested, nested_calls, hook_in>>

\* vsnprintf reports a formatting error (size < 0): the call returns 0, the
\* guard's destructor clears the flag
HookFormatError(t) ==
    /\ pc[t] = "hk_format"
    /\ is_logging' = [is_logging EXCEPT ![t] = FALSE]
    /\ hook_ret' = [hook_ret EXCEPT ![t] = 0]
    /\ pc' = [pc EXCEPT ![t] = "idle"]
    /\ UNCHANGED <<confVars, hubVars, workerVars, histVars, sinkers,
                   global_level, mutex, msg, events, nextId, sent,
                   esp_log_hook_installed, original_vprintf,
                   vprintf_handler, log_buffer,
                   buffering_log, formatted_message, forwarded, ingested,
                   nested_calls, hook_in>>

\* the formatted message is buffered, or completes the buffered line, or is
\* a single-part message; a complete message that is not empty after
\* stripping goes to dispatch_from_hook, which builds the record.  A call
\* with nothing to dispatch returns size.
HookProcess(t) ==
    /\ pc[t] = "hk_format"
    /\ LET fm == formatted_message[t]
           finalize == buffering_log[t] /\ is_color_end(fm)
           append == buffering_log[t] /\ ~is_color_end(fm)
           begin == ~buffering_log[t] /\ is_color_start(fm)
           complete_message ==
               IF finalize THEN strip(log_buffer[t] \o fm) ELSE strip(fm)
           dispatches == (finalize \/ ~(append \/ begin))
                             /\ complete_message # <<>>
       IN  /\ log_buffer' =
                  [log_buffer EXCEPT ![t] = IF finalize THEN <<>>
                                            ELSE IF append THEN @ \o fm
                                            ELSE IF begin THEN fm
                                            ELSE @]
           /\ buffering_log' =
                  [buffering_log EXCEPT ![t] = IF finalize THEN FALSE
                                               ELSE IF begin THEN TRUE
                                               ELSE @]
           /\ IF dispatches
              THEN /\ ingested' = Append(ingested, log_msg(complete_message))
                   /\ msg' = [msg EXCEPT ![t] = log_msg(complete_message)]
                   /\ pc' = [pc EXCEPT ![t] = "hk_consume"]
                   /\ UNCHANGED <<is_logging, hook_ret>>
              ELSE /\ is_logging' = [is_logging EXCEPT ![t] = FALSE]
                   /\ hook_ret' = [hook_ret EXCEPT ![t] = Len(fm)]
                   /\ pc' = [pc EXCEPT ![t] = "idle"]
                   /\ UNCHANGED <<ingested, msg>>
    /\ UNCHANGED <<confVars, hubVars, workerVars, histVars, sinkers,
                   global_level, mutex, events, nextId, sent,
                   esp_log_hook_installed, original_vprintf,
                   vprintf_handler,
                   formatted_message, forwarded, nested_calls, hook_in>>

\* dispatch_from_hook: _dispatch_internal(log_msg), called without the
\* registry mutex; then vprintf_hook returns size
HookConsume(t) ==
    /\ pc[t] = "hk_consume"
    /\ dispatch_internal(msg[t])
    /\ msg' = [msg EXCEPT ![t] = NoMsg]
    /\ is_logging' = [is_logging EXCEPT ![t] = FALSE]
    /\ hook_ret' = [hook_ret EXCEPT ![t] = Len(formatted_message[t])]
    /\ pc' = [pc EXCEPT ![t] = "idle"]
    /\ UNCHANGED <<confVars, hubVars, workerVars, histVars, sinkers,
                   global_level, mutex, nextId, sent,
                   esp_log_hook_installed, original_vprintf,
                   vprintf_handler, log_buffer,
                   buffering_log, formatted_message, forwarded, ingested,
                   nested_calls, hook_in>>

\* the native-log adapter before hook_esp_log is called
HookConstructed ==
    /\ esp_log_hook_installed = FALSE
    /\ original_vprintf = nullptr
    /\ vprintf_handler = Vprintf
    /\ is_logging = [t \in Threads |-> FALSE]
    /\ log_buffer = [t \in Threads |-> <<>>]
    /\ buffering_log = [t \in Threads |-> FALSE]
    /\ formatted_message = [t \in Threads |-> <<>>]
    /\ forwarded = <<>>
    /\ ingested = <<>>
    /\ hook_ret = [t \in Threads |-> NoRet]
    /\ nested_calls = 0
    /\ hook_in = <<>>

----------------------------------------------------------------------------
(* The state after construction: no backend, an empty registry, threshold  *)
(* Info, synchronous mode.                                                 *)

Constructed ==
    /\ g_backend = FALSE
    /\ sinkers = <<>>
    /\ global_level = Info
    /\ mutex = 0
    /\ queue = NoQueue
    /\ running = FALSE
    /\ shutdown_requested = FALSE
    /\ task = FALSE
    /\ pc = [t \in Threads |-> "idle"]
    /\ msg = [t \in Threads |-> NoMsg]
    /\ wpc = [w \in Workers |-> "none"]
    /\ wmsg = [w \in Workers |-> NoMsg]
    /\ wdrain = [w \in Workers |-> FALSE]
    /\ events = <<>>
    /\ nextId = 1
    /\ popped = <<>>
    /\ uaf = FALSE
    /\ ninit = 0
    /\ last_add = NoAdd
    /\ sent = <<>>
    /\ at_shutdown = <<>>
    /\ last_ret = "none"
    /\ push_rets = <<>>
    /\ handler_before = NoHandler
    /\ last_hook_call = NoCall
    /\ sinker_it = [t \in Threads |-> 1]
    /\ last_call = NoCall
    /\ at_flush = <<>>
    /\ HookConstructed

----------------------------------------------------------------------------
(* SpecSync: one thread uses the hub in synchronous mode (no init call),  *)
(* registering and removing sinks between dispatches.                      *)

\* sinks of the synchronous specifications
Sinks == {1, 2}
\* thresholds and severities used while the registry varies
RegThresholds == {Warning, Info}
RegLevels == {Info}

SyncInit == Constructed /\ Capacity = QUEUE_CAPACITY

SyncDispatch ==
    \E level \in RegLevels :
        /\ nextId <= MaxSyncDispatch
        /\ Len(events) + Len(sinkers) <= MaxEvents
        /\ DispatchCall(1, level)

SyncAdd ==
    \E s \in Sinks \cup {0} : Len(sinkers) < MaxSinkers /\ add_sinker(1, s)

SyncRemove == \E s \in Sinks \cup {0} : remove_sinker(1, s)

SyncSetLevel == \E level \in RegThresholds : set_level(1, level)

SyncNext ==
    \/ SyncDispatch
    \/ DispatchLock(1)
    \/ DispatchFanout(1)
    \/ SyncAdd
    \/ SyncRemove
    \/ SyncSetLevel
    \/ clear

SpecSync == SyncInit /\ [][SyncNext]_vars

----------------------------------------------------------------------------
(* SpecLevel: one thread, one sink, every severity against every           *)
(* threshold, in synchronous mode.  As in the tests, the sink is           *)
(* registered first and the threshold is set at the start of a round,      *)
(* after clear().                                                          *)

LevelAdd == sinkers = <<>> /\ sent = <<>> /\ add_sinker(1, 1)

LevelDispatch ==
    \E level \in LogLevel :
        /\ nextId <= MaxSyncDispatch
        /\ Len(events) + Len(sinkers) <= MaxEvents
        /\ DispatchCall(1, level)

LevelSetLevel == \E level \in LogLevel : sent = <<>> /\ set_level(1, level)

LevelNext ==
    \/ LevelAdd
    \/ LevelSetLevel
    \/ LevelDispatch
    \/ DispatchLock(1)
    \/ DispatchFanout(1)
    \/ clear

SpecLevel == SyncInit /\ [][LevelNext]_vars

----------------------------------------------------------------------------
(* SpecQ: overflow.  Async mode is active (a backend is registered and     *)
(* init has created the queue and the worker), the worker is not           *)
(* scheduled, one thread dispatches records and then the queue is popped   *)
(* directly.  The capacity is QUEUE_CAPACITY or a small one.               *)

\* get_metrics(): dropped and queued counts, capacity, running flag
get_metrics ==
    [dropped_count |-> IF queue = NoQueue THEN 0 ELSE dropped_count(queue),
     queued_count |-> IF queue = NoQueue THEN 0 ELSE size(queue),
     capacity |-> Capacity,
     is_running |-> running]

QInit ==
    /\ Capacity \in (1..MaxCap) \cup {QUEUE_CAPACITY}
    /\ g_backend = TRUE
    /\ sinkers = <<1>>
    /\ global_level = Info
    /\ mutex = 0
    /\ queue = RingBuffer(TRUE)
    /\ running = TRUE
    /\ shutdown_requested = FALSE
    /\ task = TRUE
    /\ pc = [t \in Threads |-> "idle"]
    /\ msg = [t \in Threads |-> NoMsg]
    /\ wpc = [w \in Workers |-> IF w = 1 THEN "loop" ELSE "none"]
    /\ wmsg = [w \in Workers |-> NoMsg]
    /\ wdrain = [w \in Workers |-> FALSE]
    /\ events = <<>>
    /\ nextId = 1
    /\ popped = <<>>
    /\ uaf = FALSE
    /\ ninit = 1
    /\ last_add = NoAdd
    /\ sent = <<>>
    /\ at_shutdown = <<>>
    /\ last_ret = "init_started"
    /\ push_rets = <<>>
    /\ handler_before = NoHandler
    /\ last_hook_call = NoCall
    /\ sinker_it = [t \in Threads |-> 1]
    /\ last_call = NoCall
    /\ at_flush = <<>>
    /\ HookConstructed

\* the next dispatch of the burst; no pop has happened yet
QDispatch == nextId <= MaxPush /\ popped = <<>> /\ DispatchCall(1, Info)

\* pop(timeout) by the queue's one consumer, run to completion: the
\* semaphore is taken, then the oldest record is moved out under the lock
QPop ==
    /\ pc[1] = "idle"
    /\ pop_take_ok(queue)
    /\ pop_item(pop_take(queue)) # NoMsg
    /\ popped' = Append(popped, pop_item(pop_take(queue)))
    /\ queue' = pop_locked(pop_take(queue))
    /\ UNCHANGED <<confVars, workerVars, sinkers, global_level, mutex,
                   running, shutdown_requested, task, pc, msg, events,
                   nextId, uaf, ninit, last_add, sent, at_shutdown,
                   last_ret,
                   push_rets, at_flush, hookVars, last_call, sinker_it,
                   last_hook_call, handler_before>>

QNext ==
    \/ QDispatch
    \/ DispatchPush(1)
    \/ QPop

SpecQ == QInit /\ [][QNext]_vars

----------------------------------------------------------------------------
(* Sinker: the async lifecycle (init, shutdown, flush) and the worker      *)
(* loop.  Time is not modelled: a bounded wait (the pop timeout, the flush *)
(* timeout, shutdown's grace period) may end at any moment at which the    *)
(* event it waits for has not happened.  include/loggable.hpp declares    *)
(* init, shutdown, flush, is_running, get_metrics, _task_entry and         *)
(* _process_queue; their definitions, and the queue branch of dispatch,    *)
(* are not among the sources, so these actions follow the design           *)
(* description of the hub.                                                 *)

\* a start guard that only reads the running flag and always proceeds
init_no_cas(t) ==
    /\ pc[t] = "idle"
    /\ IF ~get_backend
       THEN /\ pc' = [pc EXCEPT ![t] = "idle"]
            /\ last_ret' = "init_no_backend"
            /\ UNCHANGED <<running, shutdown_requested, ninit>>
       ELSE /\ running' = TRUE
            /\ shutdown_requested' = FALSE
            /\ ninit' = ninit + 1
            /\ pc' = [pc EXCEPT ![t] = "init_queue"]
            /\ UNCHANGED last_ret
    /\ UNCHANGED <<confVars, workerVars, sinkers, global_level, mutex, queue,
                   task, msg, events, nextId, popped, uaf, last_add, sent,
                   at_shutdown,
                   push_rets, at_flush, hookVars, last_call, sinker_it,
                   last_hook_call, handler_before>>

\* init(config): return when there is no backend; return when the
\* compare-and-swap of the running flag from false to true fails; otherwise
\* the flag is now set and the shutdown request is cleared
init(t) ==
    /\ pc[t] = "idle"
    /\ IF ~get_backend
       THEN /\ pc' = [pc EXCEPT ![t] = "idle"]
            /\ last_ret' = "init_no_backend"
            /\ UNCHANGED <<running, shutdown_requested, ninit>>
       ELSE IF running
       THEN /\ pc' = [pc EXCEPT ![t] = "idle"]
            /\ last_ret' = "init_already_running"
            /\ UNCHANGED <<running, shutdown_requested, ninit>>
       ELSE /\ running' = TRUE
            /\ shutdown_requested' = FALSE
            /\ ninit' = ninit + 1
            /\ pc' = [pc EXCEPT ![t] = "init_queue"]
            /\ UNCHANGED last_ret
    /\ UNCHANGED <<confVars, workerVars, sinkers, global_level, mutex, queue,
                   task, msg, events, nextId, popped, uaf, last_add, sent,
                   at_shutdown,
                   push_rets, at_flush, hookVars, last_call, sinker_it,
                   last_hook_call, handler_before>>

\* init: the queue is allocated
InitQueue(t) ==
    /\ pc[t] = "init_queue"
    /\ queue' = RingBuffer(TRUE)
    /\ pc' = [pc EXCEPT ![t] = "init_task"]
    /\ UNCHANGED <<confVars, workerVars, histVars, sinkers, global_level,
                   mutex, running, shutdown_requested, task, msg, events,
                   nextId, sent, hookVars>>

\* init: task_create succeeded, worker w starts in its main loop
InitTaskOk(t) ==
    /\ pc[t] = "init_task"
    /\ \E w \in DOMAIN wpc :
           /\ wpc[w] = "none"
           /\ \A v \in DOMAIN wpc : v < w => wpc[v] # "none"
           /\ wpc' = [wpc EXCEPT ![w] = "loop"]
    /\ task' = TRUE
    /\ pc' = [pc EXCEPT ![t] = "idle"]
    /\ last_ret' = "init_started"
    /\ UNCHANGED <<confVars, sinkers, global_level, mutex, queue, running,
                   shutdown_requested, wmsg, wdrain, msg, events, nextId,
                   popped, uaf, ninit, last_add, at_shutdown, sent,
                   push_rets, at_flush, hookVars, last_call, sinker_it,
                   last_hook_call, handler_before>>

\* a failure path that forgets to roll the running flag back
InitTaskFail_keeps_running(t) ==
    /\ pc[t] = "init_task"
    /\ queue' = NoQueue
    /\ task' = FALSE
    /\ pc' = [pc EXCEPT ![t] = "idle"]
    /\ last_ret' = "init_task_failed"
    /\ UNCHANGED <<confVars, workerVars, sinkers, global_level, mutex,
                   running, shutdown_requested, msg, events, nextId, popped,
                   uaf, ninit, last_add, at_shutdown, sent,
                   push_rets, at_flush, hookVars, last_call, sinker_it,
                   last_hook_call, handler_before>>

\* init: task_create failed; the queue is released and the running flag is
\* rolled back
InitTaskFail(t) ==
    /\ pc[t] = "init_task"
    /\ queue' = NoQueue
    /\ running' = FALSE
    /\ task' = FALSE
    /\ pc' = [pc EXCEPT ![t] = "idle"]
    /\ last_ret' = "init_task_failed"
    /\ UNCHANGED <<confVars, workerVars, sinkers, global_level, mutex,
                   shutdown_requested, msg, events, nextId, popped, uaf,
                   ninit, last_add, at_shutdown, sent,
                   push_rets, at_flush, hookVars, last_call, sinker_it,
                   last_hook_call, handler_before>>

\* shutdown(): return when not running; otherwise request the shutdown
\* and wake the worker
shutdown(t) ==
    /\ pc[t] = "idle"
    /\ IF ~running
       THEN /\ pc' = [pc EXCEPT ![t] = "idle"]
            /\ last_ret' = "shutdown_not_running"
            /\ UNCHANGED <<shutdown_requested, queue, at_shutdown>>
       ELSE /\ shutdown_requested' = TRUE
            /\ queue' = IF queue = NoQueue THEN queue ELSE signal(queue)
            /\ at_shutdown' = IF queue = NoQueue THEN <<>> ELSE Contents(queue)
            /\ pc' = [pc EXCEPT ![t] = "sd_flush"]
            /\ UNCHANGED last_ret
    /\ UNCHANGED <<confVars, workerVars, sinkers, global_level, mutex,
                   running, task, msg, events, nextId, popped, uaf, ninit,
                   last_add, sent,
                   push_rets, at_flush, hookVars, last_call, sinker_it,
                   last_hook_call, handler_before>>

\* shutdown: flush(default timeout) returns true, a poll found the queue
\* empty (or absent)
ShutdownFlushEmpty(t) ==
    /\ pc[t] = "sd_flush"
    /\ IF queue = NoQueue THEN TRUE ELSE empty(queue)
    /\ pc' = [pc EXCEPT ![t] = "sd_stop"]
    /\ UNCHANGED <<confVars, hubVars, workerVars, histVars, sinkers,
                   global_level, mutex, msg, events, nextId, sent, hookVars>>

\* shutdown: flush returns false, the timeout elapsed with records queued
ShutdownFlushTimeout(t) ==
    /\ pc[t] = "sd_flush"
    /\ queue # NoQueue /\ ~empty(queue)
    /\ pc' = [pc EXCEPT ![t] = "sd_stop"]
    /\ UNCHANGED <<confVars, hubVars, workerVars, histVars, sinkers,
                   global_level, mutex, msg, events, nextId, sent, hookVars>>

\* shutdown: the running flag is cleared and the worker woken once more
ShutdownStop(t) ==
    /\ pc[t] = "sd_stop"
    /\ running' = FALSE
    /\ queue' = IF queue = NoQueue THEN queue ELSE signal(queue)
    /\ pc' = [pc EXCEPT ![t] = "sd_grace"]
    /\ UNCHANGED <<confVars, workerVars, histVars, sinkers, global_level,
                   mutex, shutdown_requested, task, msg, events, nextId,
                   sent, hookVars>>

\* shutdown: the grace period is over; the queue is released and the
\* worker handle dropped, whether or not the worker has exited
ShutdownRelease(t) ==
    /\ pc[t] = "sd_grace"
    /\ queue' = NoQueue
    /\ task' = FALSE
    /\ pc' = [pc EXCEPT ![t] = "idle"]
    /\ last_ret' = "shutdown_done"
    /\ UNCHANGED <<confVars, workerVars, sinkers, global_level, mutex,
                   running, shutdown_requested, msg, events, nextId, popped,
                   uaf, ninit, last_add, at_shutdown, sent,
                   push_rets, at_flush, hookVars, last_call, sinker_it,
                   last_hook_call, handler_before>>

\* flush(timeout_ms), the call: polling starts
flush(t) ==
    /\ pc[t] = "idle"
    /\ pc' = [pc EXCEPT ![t] = "flush"]
    /\ at_flush' = IF queue = NoQueue THEN <<>> ELSE Contents(queue)
    /\ UNCHANGED <<confVars, hubVars, workerVars, sinkers, global_level,
                   mutex, msg, events, nextId, sent, popped, uaf, ninit,
                   last_add, at_shutdown, last_ret, push_rets, hookVars,
                   last_call, sinker_it, last_hook_call, handler_before>>

\* flush: a poll finds the queue empty (or absent); flush returns true
FlushEmpty(t) ==
    /\ pc[t] = "flush"
    /\ IF queue = NoQueue THEN TRUE ELSE empty(queue)
    /\ pc' = [pc EXCEPT ![t] = "idle"]
    /\ last_ret' = "flush_true"
    /\ UNCHANGED <<confVars, hubVars, workerVars, sinkers, global_level,
                   mutex, msg, events, nextId, sent, popped, uaf, ninit,
                   last_add, at_shutdown, push_rets, at_flush, hookVars,
                   last_call, sinker_it, last_hook_call, handler_before>>

\* a flush that reports success when its timeout elapses
FlushTimeout_returns_true(t) ==
    /\ pc[t] = "flush"
    /\ queue # NoQueue /\ ~empty(queue)
    /\ pc' = [pc EXCEPT ![t] = "idle"]
    /\ last_ret' = "flush_true"
    /\ UNCHANGED <<confVars, hubVars, workerVars, sinkers, global_level,
                   mutex, msg, events, nextId, sent, popped, uaf, ninit,
                   last_add, at_shutdown, push_rets, at_flush, hookVars,
                   last_call, sinker_it, last_hook_call, handler_before>>

\* flush: the timeout elapses, every poll having found records queued;
\* flush returns false
FlushTimeout(t) ==
    /\ pc[t] = "flush"
    /\ queue # NoQueue /\ ~empty(queue)
    /\ pc' = [pc EXCEPT ![t] = "idle"]
    /\ last_ret' = "flush_false"
    /\ UNCHANGED <<confVars, hubVars, workerVars, sinkers, global_level,
                   mutex, msg, events, nextId, sent, popped, uaf, ninit,
                   last_add, at_shutdown, push_rets, at_flush, hookVars,
                   last_call, sinker_it, last_hook_call, handler_before>>

\* is_running()
is_running == running

----------------------------------------------------------------------------
(* The worker task: _task_entry runs _process_queue.  wpc[w] is "none"     *)
(* before the task exists and "done" once it has returned; wdrain[w] tells *)
(* the main loop from the final drain pass.  A worker that finds the queue *)
(* released has used it outside its lifetime: uaf is set and the worker is *)
(* followed no further.                                                    *)

\* the head of the loops.  Main loop: leave when the running flag is
\* clear, or when shutdown is requested and the queue is empty; otherwise
\* pop.  Drain pass: return when the queue is empty; otherwise pop.
WorkerLoop(w) ==
    /\ wpc[w] = "loop"
    /\ IF ~wdrain[w] /\ ~running
       THEN /\ wdrain' = [wdrain EXCEPT ![w] = TRUE]
            /\ UNCHANGED <<wpc, uaf>>
       ELSE IF queue = NoQueue
       THEN /\ uaf' = TRUE
            /\ wpc' = [wpc EXCEPT ![w] = "done"]
            /\ UNCHANGED wdrain
       ELSE IF ~wdrain[w] /\ shutdown_requested /\ empty(queue)
       THEN /\ wdrain' = [wdrain EXCEPT ![w] = TRUE]
            /\ UNCHANGED <<wpc, uaf>>
       ELSE IF wdrain[w] /\ empty(queue)
       THEN /\ wpc' = [wpc EXCEPT ![w] = "done"]
            /\ UNCHANGED <<wdrain, uaf>>
       ELSE /\ wpc' = [wpc EXCEPT ![w] = "take"]
            /\ UNCHANGED <<wdrain, uaf>>
    /\ UNCHANGED <<confVars, hubVars, sinkers, global_level, mutex, pc, msg,
                   wmsg, events, nextId, popped, ninit, last_add, sent,
                   at_shutdown, last_ret,
                   push_rets, at_flush, hookVars, last_call, sinker_it,
                   last_hook_call, handler_before>>

\* pop, first part: semaphore_take succeeds, or gives up (after the short
\* timeout in the main loop, at once in the drain pass) and pop returns
\* nullopt
WorkerTake(w) ==
    /\ wpc[w] = "take"
    /\ IF queue = NoQueue
       THEN /\ uaf' = TRUE
            /\ wpc' = [wpc EXCEPT ![w] = "done"]
            /\ UNCHANGED queue
       ELSE IF pop_take_ok(queue)
       THEN /\ queue' = pop_take(queue)
            /\ wpc' = [wpc EXCEPT ![w] = "pop"]
            /\ UNCHANGED uaf
       ELSE /\ wpc' = [wpc EXCEPT ![w] = "loop"]
            /\ UNCHANGED <<queue, uaf>>
    /\ UNCHANGED <<confVars, sinkers, global_level, mutex, running,
                   shutdown_requested, task, pc, msg, wmsg, wdrain, events,
                   nextId, popped, ninit, last_add, sent, at_shutdown,
                   last_ret,
                   push_rets, at_flush, hookVars, last_call, sinker_it,
                   last_hook_call, handler_before>>

\* pop, second part, under the queue's lock: the oldest record is moved
\* out, or nullopt is returned when there is none
WorkerPop(w) ==
    /\ wpc[w] = "pop"
    /\ IF queue = NoQueue
       THEN /\ uaf' = TRUE
            /\ wpc' = [wpc EXCEPT ![w] = "done"]
            /\ UNCHANGED <<queue, wmsg>>
       ELSE /\ queue' = pop_locked(queue)
            /\ wmsg' = [wmsg EXCEPT ![w] = pop_item(queue)]
            /\ wpc' = [wpc EXCEPT ![w] =
                           IF pop_item(queue) = NoMsg THEN "loop" ELSE "lock"]
            /\ UNCHANGED uaf
    /\ UNCHANGED <<confVars, sinkers, global_level, mutex, running,
                   shutdown_requested, task, pc, msg, wdrain, events, nextId,
                   popped, ninit, last_add, sent, at_shutdown, last_ret,
                   push_rets, at_flush, hookVars, last_call, sinker_it,
                   last_hook_call, handler_before>>

\* the worker takes the registry mutex for the fan-out
WorkerLock(w) ==
    /\ wpc[w] = "lock"
    /\ mutex = 0
    /\ mutex' = WorkerId(w)
    /\ wpc' = [wpc EXCEPT ![w] = "fan"]
    /\ UNCHANGED <<confVars, hubVars, histVars, sinkers, global_level, pc,
                   msg, wmsg, wdrain, events, nextId, sent, hookVars>>

\* _dispatch_internal(record) under the registry mutex, which is then
\* released; the record is destroyed
WorkerFanout(w) ==
    /\ wpc[w] = "fan"
    /\ dispatch_internal(wmsg[w])
    /\ mutex' = 0
    /\ wmsg' = [wmsg EXCEPT ![w] = NoMsg]
    /\ wpc' = [wpc EXCEPT ![w] = "loop"]
    /\ UNCHANGED <<confVars, hubVars, histVars, sinkers, global_level, pc,
                   msg, wdrain, nextId, sent, hookVars>>

----------------------------------------------------------------------------
(* Spec: the hub with a backend registered or not, one sink registered,    *)
(* threshold Info.  The producer thread dispatches, the controller thread  *)
(* calls init and shutdown, and the worker runs concurrently with them.    *)

Producers == {1}
Controllers == {2}

HubInit ==
    /\ Capacity = SmallCap
    /\ g_backend \in BOOLEAN
    /\ sinkers = <<1>>
    /\ global_level = Info
    /\ mutex = 0
    /\ queue = NoQueue
    /\ running = FALSE
    /\ shutdown_requested = FALSE
    /\ task = FALSE
    /\ pc = [t \in Threads |-> "idle"]
    /\ msg = [t \in Threads |-> NoMsg]
    /\ wpc = [w \in Workers |-> "none"]
    /\ wmsg = [w \in Workers |-> NoMsg]
    /\ wdrain = [w \in Workers |-> FALSE]
    /\ events = <<>>
    /\ nextId = 1
    /\ popped = <<>>
    /\ uaf = FALSE
    /\ ninit = 0
    /\ last_add = NoAdd
    /\ sent = <<>>
    /\ at_shutdown = <<>>
    /\ last_ret = "none"
    /\ push_rets = <<>>
    /\ handler_before = NoHandler
    /\ last_hook_call = NoCall
    /\ sinker_it = [t \in Threads |-> 1]
    /\ last_call = NoCall
    /\ at_flush = <<>>
    /\ HookConstructed

HubDispatch(t) == nextId <= MaxDispatch /\ DispatchCall(t, Info)

HubInitCall(t) == ninit < MaxInit /\ init(t)

Next ==
    \/ \E t \in Producers :
           \/ HubDispatch(t)
           \/ DispatchPush(t)
           \/ DispatchLock(t)
           \/ DispatchFanout(t)
    \/ \E t \in Controllers :
           \/ HubInitCall(t)
           \/ InitQueue(t)
           \/ InitTaskOk(t)
           \/ InitTaskFail(t)
           \/ shutdown(t)
           \/ ShutdownFlushEmpty(t)
           \/ ShutdownFlushTimeout(t)
           \/ ShutdownStop(t)
           \/ ShutdownRelease(t)
    \/ \E w \in Workers :
           \/ WorkerLoop(w)
           \/ WorkerTake(w)
           \/ WorkerPop(w)
           \/ WorkerLock(w)
           \/ WorkerFanout(w)

Spec == HubInit /\ [][Next]_vars

----------------------------------------------------------------------------
(* SpecStall: async mode is active and stays so (no init or shutdown call  *)
(* is in progress); one producer dispatches while the worker pops and fans *)
(* out at its own pace, so that the queue can fill up behind a worker      *)
(* that is inside a sink's consume.                                        *)

StallInit == QInit /\ Capacity = SmallCap

StallDispatch == nextId <= MaxStallDispatch /\ DispatchCall(1, Info)

StallNext ==
    \/ StallDispatch
    \/ DispatchPush(1)
    \/ WorkerLoop(1)
    \/ WorkerTake(1)
    \/ WorkerPop(1)
    \/ WorkerLock(1)
    \/ WorkerFanout(1)

SpecStall == StallInit /\ [][StallNext]_vars

(* SpecRing: a RingBuffer on its own, with or without a backend.  Thread *)
(* 1 pushes, thread 2 is the one consumer and calls pop(timeout); signal() *)
(* may be called at any time.  pop is two steps: semaphore_take, then the  *)
(* part under the mutex, so that pushes interleave with it.  A pop that    *)
(* returns nullopt appends NoMsg to popped.                                *)

RingInit ==
    /\ Capacity \in 1..MaxCap
    /\ g_backend \in BOOLEAN
    /\ queue = RingBuffer(g_backend)
    /\ sinkers = <<>>
    /\ global_level = Info
    /\ mutex = 0
    /\ running = FALSE
    /\ shutdown_requested = FALSE
    /\ task = FALSE
    /\ pc = [t \in Threads |-> "idle"]
    /\ msg = [t \in Threads |-> NoMsg]
    /\ wpc = [w \in Workers |-> "none"]
    /\ wmsg = [w \in Workers |-> NoMsg]
    /\ wdrain = [w \in Workers |-> FALSE]
    /\ events = <<>>
    /\ nextId = 1
    /\ popped = <<>>
    /\ uaf = FALSE
    /\ ninit = 0
    /\ last_add = NoAdd
    /\ sent = <<>>
    /\ at_shutdown = <<>>
    /\ last_ret = "none"
    /\ push_rets = <<>>
    /\ handler_before = NoHandler
    /\ last_hook_call = NoCall
    /\ sinker_it = [t \in Threads |-> 1]
    /\ last_call = NoCall
    /\ at_flush = <<>>
    /\ HookConstructed

\* push(item), one step under the queue's mutex; the return value is
\* recorded
RingPush ==
    /\ nextId <= MaxRingPush
    /\ LET m == LogMessage(nextId, Info, 1)
       IN  /\ queue' = push(queue, m)
           /\ push_rets' = Append(push_rets, push_result(queue))
           /\ sent' = Append(sent, [m |-> m, thr |-> global_level])
    /\ nextId' = nextId + 1
    /\ UNCHANGED <<confVars, workerVars, sinkers, global_level, mutex,
                   running, shutdown_requested, task, pc, msg, events,
                   popped, uaf, ninit, last_add, at_shutdown, last_ret,
                   at_flush, hookVars, last_call, sinker_it, last_hook_call,
                   handler_before>>

\* pop(timeout), semaphore_take: taken, or timed out and nullopt returned;
\* a timeout needs the semaphore to be unsignalled
RingTake(t) ==
    /\ pc[t] = "idle"
    /\ Len(popped) < MaxRingPop
    /\ IF pop_take_ok(queue)
       THEN /\ queue' = pop_take(queue)
            /\ pc' = [pc EXCEPT ![t] = "pop"]
            /\ UNCHANGED popped
       ELSE /\ popped' = Append(popped, NoMsg)
            /\ UNCHANGED <<queue, pc>>
    /\ UNCHANGED <<confVars, workerVars, sinkers, global_level, mutex,
                   running, shutdown_requested, task, msg, events, nextId,
                   uaf, ninit, last_add, sent, at_shutdown, last_ret,
                   push_rets, at_flush, hookVars, last_call, sinker_it,
                   last_hook_call, handler_before>>

\* pop(timeout), the part under the mutex: nullopt when count is zero, else
\* the record at tail is moved out and the semaphore re-given when records
\* remain
RingPopLocked(t) ==
    /\ pc[t] = "pop"
    /\ popped' = Append(popped, pop_item(queue))
    /\ queue' = pop_locked(queue)
    /\ pc' = [pc EXCEPT ![t] = "idle"]
    /\ UNCHANGED <<confVars, workerVars, sinkers, global_level, mutex,
                   running, shutdown_requested, task, msg, events, nextId,
                   uaf, ninit, last_add, sent, at_shutdown, last_ret,
                   push_rets, at_flush, hookVars, last_call, sinker_it,
                   last_hook_call, handler_before>>

\* signal(): wakes a consumer blocked in pop
RingSignal ==
    /\ queue.backend
    /\ queue.sem = 0
    /\ queue' = signal(queue)
    /\ UNCHANGED <<confVars, workerVars, histVars, sinkers, global_level,
                   mutex, running, shutdown_requested, task, pc, msg,
                   events, nextId, sent, hookVars>>

RingNext ==
    \/ RingPush
    \/ RingTake(2)
    \/ RingPopLocked(2)
    \/ RingSignal

SpecRing == RingInit /\ [][RingNext]_vars

----------------------------------------------------------------------------
(* SpecAsyncLevel: async mode is active; thread 1 dispatches records of    *)
(* several severities, thread 2 changes the threshold, the worker pops    *)
(* and fans out.                                                           *)

AsyncLevels == {Error, Info, Debug}
AsyncThresholds == {Error, Info, Verbose}

AsyncLevelInit == QInit /\ Capacity = MaxCap

AsyncLevelDispatch ==
    /\ nextId <= MaxAsyncDispatch
    /\ \E level \in AsyncLevels : DispatchCall(1, level)

AsyncSetLevel == \E level \in AsyncThresholds : set_level(2, level)

AsyncLevelNext ==
    \/ AsyncLevelDispatch
    \/ DispatchPush(1)
    \/ AsyncSetLevel
    \/ WorkerLoop(1)
    \/ WorkerTake(1)
    \/ WorkerPop(1)
    \/ WorkerLock(1)
    \/ WorkerFanout(1)

SpecAsyncLevel == AsyncLevelInit /\ [][AsyncLevelNext]_vars

----------------------------------------------------------------------------
(* SpecFlush: async mode is active; thread 1 dispatches, thread 2 calls   *)
(* flush, the worker pops and fans out.  The queue is large enough for     *)
(* every record dispatched, so nothing is evicted.                         *)

FlushInit == QInit /\ Capacity = MaxCap

FlushDispatch == nextId <= MaxFlushDispatch /\ DispatchCall(1, Info)

FlushNext ==
    \/ FlushDispatch
    \/ DispatchPush(1)
    \/ flush(2)
    \/ FlushEmpty(2)
    \/ FlushTimeout(2)
    \/ WorkerLoop(1)
    \/ WorkerTake(1)
    \/ WorkerPop(1)
    \/ WorkerLock(1)
    \/ WorkerFanout(1)

SpecFlush == FlushInit /\ [][FlushNext]_vars

----------------------------------------------------------------------------
(* SpecLog: synchronous mode (init is never called).  Sinks are           *)
(* registered and the threshold set first; then the threads call           *)
(* Logger::log and Sinker::dispatch concurrently.                          *)

LogLevels == {Error, Info, Debug}

\* the threads that log
LogThreads == {1, 2}

LogAdd ==
    \E s \in Sinks :
        sent = <<>> /\ Len(sinkers) < MaxSinkers /\ add_sinker(1, s)

LogSetLevel ==
    \E level \in RegThresholds : sent = <<>> /\ set_level(1, level)

LogCall(t) ==
    \E level \in LogLevels : nextId <= MaxLogDispatch /\ Logger_log(t, level)

LogDispatch(t) ==
    \E level \in LogLevels :
        nextId <= MaxLogDispatch /\ DispatchCall(t, level)

LogNext ==
    \/ LogAdd
    \/ LogSetLevel
    \/ \E t \in LogThreads :
           \/ LogCall(t)
           \/ LogDispatch(t)
           \/ DispatchLock(t)
           \/ DispatchFanout(t)

SpecLog == SyncInit /\ [][LogNext]_vars

----------------------------------------------------------------------------
(* SpecHook: one thread writes native-log output through the installed     *)
(* hook, in synchronous mode with one sink; every formatting succeeds.     *)

\* the first fragment of a line, without colour
FragHello ==
    <<"E", " ", "(", "1", "2", "3", "4", ")", " ", "T", "A", "G", ":", " ",
      "H", "e", "l", "l", "o", ",", " ">>

\* the fragment that ends the line
FragWorld ==
    <<"w", "o", "r", "l", "d", "!", NL>>

\* the first fragment of a coloured line
FragColorHello ==
    <<ESC, "[", "0", ";", "3", "1", "m", "E", " ", "(", "1", "2", "3", "4",
      ")", " ", "T", "A", "G", ":", " ", "H", "e", "l", "l", "o", ",", " ">>

\* the fragment that ends a coloured line
FragWorldReset ==
    <<"w", "o", "r", "l", "d", "!", ESC, "[", "0", "m", NL>>

\* a complete line of the native shape
LineInfo ==
    <<"I", " ", "(", "1", "2", ")", " ", "W", "I", "F", "I", ":", " ", "u",
      "p", NL>>

\* an empty line
LineEmpty ==
    <<NL>>

\* a line without level letter
LineNoLevel ==
    <<"b", "o", "o", "t", " ", "o", "k", NL>>

\* a line that starts like the native shape and goes on differently
LineLetterOnly ==
    <<"E", " ", "b", "o", "o", "m", NL>>

Fragments ==
    {FragHello, FragWorld, FragColorHello, FragWorldReset, LineInfo,
     LineEmpty, LineNoLevel, LineLetterOnly}

HookAdd == sinkers = <<>> /\ hook_in = <<>> /\ add_sinker(1, 1)

\* the application clears the platform's handler before any install
HookPrior ==
    /\ handler_before = NoHandler
    /\ vprintf_handler # nullptr
    /\ esp_log_set_vprintf(1, nullptr)

HookInstall == hook_in = <<>> /\ hook_esp_log(1, TRUE)

HookUninstall == Len(hook_in) = MaxHookCalls /\ hook_esp_log(1, FALSE)

HookCall ==
    \E line \in Fragments :
        /\ Len(hook_in) < MaxHookCalls
        /\ pc[1] = "idle"
        /\ vprintf_hook(1, line)

HookNext ==
    \/ HookAdd
    \/ HookPrior
    \/ HookInstall
    \/ HookUninstall
    \/ HookCall
    \/ HookForward(1)
    \/ HookProcess(1)
    \/ HookConsume(1)

SpecHook == SyncInit /\ [][HookNext]_vars

----------------------------------------------------------------------------
(* SpecHookGuard: two threads write native-log output through the hook;   *)
(* the prior handler and the sinks may themselves write native-log output  *)
(* on the thread that called them, which re-enters the hook; a formatting  *)
(* may fail.                                                               *)

GuardThreads == {1, 2}

GuardFragments == {FragColorHello, FragWorldReset, LineInfo}

GuardCall(t) ==
    \E line \in GuardFragments :
        /\ pc[t] = "idle"
        /\ Len(hook_in) < MaxGuardCalls
        /\ vprintf_hook(t, line)

GuardNested(t) ==
    \E line \in GuardFragments :
        /\ pc[t] # "idle"
        /\ nested_calls < MaxNested
        /\ vprintf_hook(t, line)

GuardNext ==
    \/ HookAdd
    \/ HookPrior
    \/ HookInstall
    \/ \E t \in GuardThreads :
           \/ GuardCall(t)
           \/ GuardNested(t)
           \/ HookForward(t)
           \/ HookFormatError(t)
           \/ HookProcess(t)
           \/ HookConsume(t)

SpecHookGuard == SyncInit /\ [][GuardNext]_vars

----------------------------------------------------------------------------
(* SpecRegistry: one thread registers and removes three sinks and null     *)
(* references, in any order.                                               *)

RegSinks == {1, 2, 3}

RegAdd ==
    \E s \in RegSinks \cup {0} :
        Len(sinkers) < MaxRegSinkers /\ add_sinker(1, s)

RegRemove == \E s \in RegSinks \cup {0} : remove_sinker(1, s)

RegNext ==
    \/ RegAdd
    \/ RegRemove

SpecRegistry == SyncInit /\ [][RegNext]_vars

----------------------------------------------------------------------------
(* Helpers of the claims *)

Range(seq) == {seq[i] : i \in 1..Len(seq)}

\* the entries of seq after its first n
Drop(seq, n) == [i \in 1..(Len(seq) - n) |-> seq[n + i]]

RECURSIVE Flatten(_)
Flatten(seqs) ==
    IF seqs = <<>> THEN <<>> ELSE Head(seqs) \o Flatten(Tail(seqs))

\* what a dispatch call x = [m, thr] owes the sinks of registry reg: one
\* consume per entry, in registration order, when its severity passes
Owed(x, reg) ==
    IF x.m.level <= x.thr
    THEN [i \in 1..Len(reg) |-> [sink |-> reg[i], m |-> x.m]]
    ELSE <<>>

----------------------------------------------------------------------------
\* C2: in synchronous mode a record of severity S passed to dispatch is
\* delivered to the registered sinks iff S <= T, T the threshold in force at
\* the dispatch call (None < Error < Warning < Info < Debug < Verbose):
\* once every call has returned, the consume calls made since the sink was
\* registered are exactly those of the calls whose severity passed, in call
\* order.
C2_DeliveredIffEnabled ==
    pc[1] = "idle" =>
        events = Flatten([i \in 1..Len(sent) |-> Owed(sent[i], sinkers)])

\* threshold Warning, one sink: Info, Warning, Error were dispatched and
\* exactly Warning then Error were delivered
C2_Witness ==
    /\ pc[1] = "idle"
    /\ Len(sent) = 3
    /\ sinkers = <<1>>
    /\ \A i \in 1..3 : sent[i].thr = Warning
    /\ [i \in 1..3 |-> sent[i].m.level] = <<Info, Warning, Error>>
    /\ events = <<[sink |-> 1, m |-> LogMessage(2, Warning, 1)],
                  [sink |-> 1, m |-> LogMessage(3, Error, 1)]>>

----------------------------------------------------------------------------
\* the consume calls a step adds
NewEvents == Drop(events', Len(events))

\* how many entries of seq satisfy being equal to x
Count(seq, x) == Cardinality({i \in 1..Len(seq) : seq[i] = x})

\* C3 as stated: for any registry contents, the fan-out of one enabled
\* record makes exactly one consume call on every registered sink, in
\* registration order.
C3_OncePerSink ==
    [][DispatchFanout(1) /\ msg[1].level <= global_level =>
          /\ \A s \in Range(sinkers) :
                 Count([i \in 1..Len(NewEvents) |-> NewEvents[i].sink], s) = 1
          /\ \A i \in 1..Len(NewEvents) : NewEvents[i].m = msg[1]]_vars

\* C3, amended: the fan-out of one enabled record makes exactly one consume
\* call per registry entry, in registration order, each with an equal copy
\* of the record; so a sink registered once consumes it exactly once and a
\* sink registered k times consumes it k times.
C3_OncePerEntry ==
    [][DispatchFanout(1) /\ msg[1].level <= global_level =>
          /\ [i \in 1..Len(NewEvents) |-> NewEvents[i].sink] = sinkers
          /\ \A i \in 1..Len(NewEvents) : NewEvents[i].m = msg[1]
          /\ events = [i \in 1..Len(events) |-> events'[i]]]_vars

\* two sinks are registered and one record was dispatched: each consumed an
\* equal copy once, the first registered first
C3_Witness ==
    /\ pc[1] = "idle"
    /\ sinkers = <<1, 2>>
    /\ Len(sent) = 1
    /\ events = <<[sink |-> 1, m |-> sent[1].m],
                  [sink |-> 2, m |-> sent[1].m]>>

----------------------------------------------------------------------------
\* C4 as stated: for any registry and any sink s, add_sinker(s) followed by
\* remove_sinker(s) leaves the registry as it was before the add, and no
\* later fan-out reaches s.
C4_AddRemoveRestores ==
    [][/\ \A s \in Sinks :
              remove_sinker(1, s) /\ last_add # NoAdd /\ last_add.s = s =>
                  sinkers' = last_add.before /\ s \notin Range(sinkers')
       /\ DispatchFanout(1) =>
              \A i \in 1..Len(NewEvents) : NewEvents[i].sink \in Range(sinkers)
      ]_vars

\* C4, amended: add_sinker(s) followed by remove_sinker(s) leaves the
\* registry as it was before the add provided s was not registered before
\* the add (if it was, the remove also takes the earlier entries of s away
\* and leaves the other entries in place); after the remove s is not in the
\* registry, and a fan-out only reaches sinks that are in the registry.
C4_AddRemoveRestoresFresh ==
    [][/\ \A s \in Sinks :
              remove_sinker(1, s) /\ last_add # NoAdd /\ last_add.s = s =>
                  /\ s \notin Range(last_add.before) =>
                         sinkers' = last_add.before
                  /\ sinkers' = SelectSeq(last_add.before, LAMBDA x : x # s)
                  /\ s \notin Range(sinkers')
       /\ DispatchFanout(1) =>
              \A i \in 1..Len(NewEvents) : NewEvents[i].sink \in Range(sinkers)
      ]_vars

\* sink 2 was added, consumed the first record, was removed, and the second
\* record dispatched after the removal reached no sink: the registry is
\* empty as before the add
C4_Witness ==
    /\ pc[1] = "idle"
    /\ sinkers = <<>>
    /\ last_add = NoAdd
    /\ Len(sent) = 2
    /\ sent[2].m.level <= sent[2].thr
    /\ events = <<[sink |-> 2, m |-> sent[1].m]>>

----------------------------------------------------------------------------
\* the last n entries of seq
LastN(seq, n) == Drop(seq, Len(seq) - n)

\* the records of the dispatch calls so far, in call order
Pushed == [i \in 1..Len(sent) |-> sent[i].m]

----------------------------------------------------------------------------
\* C5: shutdown never discards an already-enqueued record: every record
\* that is in the queue when shutdown() is called has been consumed by
\* every registered sink by the time shutdown releases the queue.
C5_ShutdownDeliversQueued ==
    [][\A t \in Controllers :
           ShutdownRelease(t) =>
               \A i \in 1..Len(at_shutdown) : \A s \in Range(sinkers) :
                   [sink |-> s, m |-> at_shutdown[i]] \in Range(events)]_vars

----------------------------------------------------------------------------
----------------------------------------------------------------------------
\* C7: idempotence: init while already running, and shutdown while not
\* running, return at once and leave the running flag, the queue and its
\* contents, the metrics, the worker and the shutdown request unchanged.
C7_Idempotent ==
    [][\A t \in Controllers :
           ((init(t) /\ running) \/ (shutdown(t) /\ ~running)) =>
               /\ pc'[t] = "idle"
               /\ UNCHANGED <<hubVars, workerVars, mutex, events, ninit>>
               /\ get_metrics' = get_metrics]_vars

\* init has just returned without effect: async mode was already running,
\* with a record in the queue and the worker alive
C7_Witness ==
    /\ last_ret = "init_already_running"
    /\ running /\ queue # NoQueue /\ task
    /\ size(queue) = 1
    /\ wpc[1] = "loop"
    /\ ninit = 1

----------------------------------------------------------------------------
\* C8: when no backend is registered init is a no-op: is_running stays
\* false, there is no queue and no worker, no dispatch takes the queue
\* branch, and once the dispatch calls have returned every record has been
\* fanned out, in call order, by the calling thread.
C8_NoBackendStaysSync ==
    ~g_backend =>
        /\ ~is_running /\ queue = NoQueue /\ ~task /\ ninit = 0
        /\ \A w \in Workers : wpc[w] = "none"
        /\ \A t \in Producers : pc[t] \in {"idle", "lock", "fanout"}
        /\ \A t \in Controllers : pc[t] = "idle"
        /\ (\A t \in Producers : pc[t] = "idle") =>
               events =
                   Flatten([i \in 1..Len(sent) |-> Owed(sent[i], sinkers)])

\* without a backend init has returned, and two records were dispatched
\* and consumed
C8_Witness ==
    /\ ~g_backend
    /\ last_ret = "init_no_backend"
    /\ pc[1] = "idle"
    /\ Len(sent) = 2
    /\ events = <<[sink |-> 1, m |-> sent[1].m],
                  [sink |-> 1, m |-> sent[2].m]>>

----------------------------------------------------------------------------
\* C9: when the backend fails to create the worker task, init returns
\* with the queue released and the running flag false again, and no worker;
\* from then on, until the next init, a dispatch takes the synchronous
\* branch, and a later init call starts again (it wins the
\* compare-and-swap).
C9_TaskFailureRollsBack ==
    [][\A t \in Controllers :
           /\ InitTaskFail(t) =>
                  /\ pc'[t] = "idle"
                  /\ queue' = NoQueue /\ ~running' /\ ~task'
                  /\ wpc' = wpc
                  /\ last_ret' = "init_task_failed"
           /\ (last_ret = "init_task_failed" /\ pc[t] = "idle") =>
                  /\ ~running /\ queue = NoQueue
                  /\ \A p \in Producers :
                         DispatchCall(p, Info) => pc'[p] = "lock"
                  /\ init(t) => pc'[t] = "init_queue" /\ running']_vars

\* the one init call so far has failed to create its task and returned; a
\* dispatch made in the state it left is fanning out on the calling thread
C9_Witness ==
    /\ last_ret = "init_task_failed"
    /\ ninit = 1
    /\ ~running /\ queue = NoQueue /\ ~task
    /\ pc[2] = "idle"
    /\ pc[1] = "fanout"
    /\ wpc[1] = "none"

----------------------------------------------------------------------------
\* C10: per-producer FIFO: the records of one producer thread that are
\* delivered are consumed by each sink in the order the thread dispatched
\* them (record identities grow in dispatch order), in sync and async mode
\* and across init and shutdown.
C10_PerProducerFIFO ==
    \A i, j \in 1..Len(events) :
        (/\ i < j
         /\ events[i].sink = events[j].sink
         /\ events[i].m.src = events[j].m.src) =>
            events[i].m.id < events[j].m.id

----------------------------------------------------------------------------
----------------------------------------------------------------------------
\* C12: push always stores the record and returns; it returns false exactly
\* when the queue was full on entry (the oldest record was overwritten) and
\* true otherwise, and the dropped counter equals the number of pushes that
\* returned false.
C12_PushResult ==
    /\ [](/\ Len(push_rets) = Len(sent)
          /\ dropped_count(queue) = Count(push_rets, FALSE))
    /\ [][RingPush =>
             LET m == sent'[Len(sent')].m
                 full == size(queue) = Capacity
             IN  /\ push_rets'[Len(push_rets')] = ~full
                 /\ Contents(queue') =
                        Append(IF full THEN Tail(Contents(queue))
                               ELSE Contents(queue), m)]_vars

\* five pushes on a queue of two slots with no pop in between: true, true,
\* then three times false, three records dropped
C12_Witness ==
    /\ Capacity = 2
    /\ push_rets = <<TRUE, TRUE, FALSE, FALSE, FALSE>>
    /\ dropped_count(queue) = 3
    /\ popped = <<>>

----------------------------------------------------------------------------
\* C13: set_level takes effect only for records dispatched after it: a
\* record already in the queue when set_level is called is delivered or
\* discarded at fan-out according to the threshold that was in force when
\* it was dispatched, not according to the threshold at fan-out time.
C13_NoRetroactiveLevel ==
    [][\A w \in Workers :
          WorkerFanout(w) =>
              \A i \in 1..Len(sent) :
                  sent[i].m = wmsg[w] => NewEvents = Owed(sent[i], sinkers)]_vars

----------------------------------------------------------------------------
\* C14: flush(timeout) returns true iff a poll observed the queue empty
\* before the timeout elapsed, and false if the timeout expired first (the
\* queue still holding records); flush itself removes no record from the
\* queue and does not stop producers from pushing while it is in progress.
C14_FlushResult ==
    /\ [][\A t \in Threads :
             /\ flush(t) => queue' = queue
             /\ (FlushEmpty(t) \/ FlushTimeout(t)) =>
                    /\ queue' = queue
                    /\ last_ret' = IF empty(queue) THEN "flush_true"
                                   ELSE "flush_false"]_vars
    /\ [](pc[2] = "flush" =>
             /\ pc[1] = "push" => ENABLED DispatchPush(1)
             /\ (pc[1] = "idle" /\ nextId <= MaxFlushDispatch) =>
                    ENABLED FlushDispatch)

\* flush was called with one record queued, the producer pushed a second
\* one while flush was polling, and flush returned false with both still
\* in the queue
C14_Witness ==
    /\ pc[2] = "idle"
    /\ last_ret = "flush_false"
    /\ Len(sent) = 2
    /\ at_flush = <<sent[1].m>>
    /\ Contents(queue) = <<sent[1].m, sent[2].m>>

----------------------------------------------------------------------------
\* C15: when flush returns true, every record that was in the queue when
\* flush was called has already been consumed by the sinks (no record is
\* evicted in this specification), not merely removed from the queue.
C15_FlushMeansConsumed ==
    [][\A t \in Threads :
          FlushEmpty(t) =>
              \A i \in 1..Len(at_flush) : \A k \in 1..Len(sinkers) :
                  [sink |-> sinkers[k], m |-> at_flush[i]] \in Range(events)]_vars

----------------------------------------------------------------------------
----------------------------------------------------------------------------
\* the characters of a TIMESTAMP
Digits == {"0", "1", "2", "3", "4", "5", "6", "7", "8", "9"}

\* line s (without its newline) has the shape LEVEL (TIMESTAMP) TAG: MESSAGE
MatchesShape(s) ==
    /\ Len(s) > 4
    /\ s[1] \in LevelLetters /\ s[2] = " " /\ s[3] = "("
    /\ \E j \in 5..Len(s) : \E k \in (j + 3)..(Len(s) - 1) :
           /\ s[j] = ")" /\ s[j + 1] = " " /\ s[k] = ":" /\ s[k + 1] = " "
           /\ \A i \in 4..(j - 1) : s[i] \in Digits
           /\ \A i \in (j + 2)..(k - 1) : s[i] \notin {":", " "}

\* C17: the adapter buffers fragments until the fragment that ends the
\* line and then ingests exactly one record: "E (1234) TAG: Hello, "
\* followed by "world!\n" gives no record for the first fragment alone and,
\* once the second call has returned, exactly one record of severity
\* Error, tag "TAG" and message "Hello, world!".
C17_FragmentsOneRecord ==
    (hook_in # <<>> /\ hook_in[1].line = FragHello) =>
        /\ Len(hook_in) = 1 => ingested = <<>>
        /\ (Len(hook_in) = 2 /\ hook_in[2].line = FragWorld
                             /\ pc[1] = "idle") =>
               ingested = <<LogMessage(SubSeq(FragHello, 15, 21)
                                           \o SubSeq(FragWorld, 1, 6),
                                       Error, SubSeq(FragHello, 10, 12))>>

----------------------------------------------------------------------------
\* C18: every complete native-log line that does not have the shape
\* LEVEL (TIMESTAMP) TAG: MESSAGE is ingested as exactly one record whose
\* message is the entire line, with an empty tag and the default severity
\* Info; no line is dropped.
C18_FallbackWholeLine ==
    \A line \in Fragments :
        (/\ hook_in = <<[thr |-> 1, line |-> line]>>
         /\ pc[1] = "idle"
         /\ line[Len(line)] = NL
         /\ ESC \notin Range(line)
         /\ ~MatchesShape(pop_newline(line))) =>
            ingested = <<LogMessage(pop_newline(line), Info, <<>>)>>

----------------------------------------------------------------------------
\* the entries of a call log made by thread t
OfThread(log, t) == SelectSeq(log, LAMBDA e : e.thr = t)

\* C19: the adapter is recursion-guarded per thread.  A call that enters
\* the hook while the same thread is already inside returns 0 at once,
\* ingests nothing and leaves the thread's line buffer (and everything
\* else) as it was; the line of a call has been passed to the prior
\* handler before that call hands anything to the hub; the guard flag of a
\* thread is set exactly while its outermost call is in progress, so it is
\* false after every return of an outermost call.
C19_RecursionGuard ==
    /\ [](\A t \in Threads :
             /\ is_logging[t] <=> pc[t] \in {"hk_forward", "hk_format",
                                              "hk_consume"}
             /\ original_vprintf # nullptr =>
                    OfThread(forwarded, t) =
                        IF pc[t] = "hk_forward"
                        THEN SubSeq(OfThread(hook_in, t), 1,
                                    Len(OfThread(hook_in, t)) - 1)
                        ELSE OfThread(hook_in, t))
    /\ [][nested_calls' # nested_calls =>
             /\ \E t \in Threads : is_logging[t] /\ hook_ret'[t] = 0
             /\ UNCHANGED <<log_buffer, buffering_log, ingested, events,
                            forwarded, is_logging, pc, msg, hook_in,
                            formatted_message, sinkers>>]_vars
    /\ [][(ingested' # ingested \/ events' # events) =>
             \E t \in Threads :
                 pc[t] \in {"hk_format", "hk_consume"} /\ pc'[t] # pc[t]]_vars

\* thread 1 is inside the hook handing a record to the sink, and a call it
\* made from there has returned 0; its line went to the prior handler
\* first; thread 2 is inside the hook at the same time
C19_Witness ==
    /\ original_vprintf # nullptr
    /\ pc[1] = "hk_consume" /\ is_logging[1]
    /\ nested_calls = 1 /\ hook_ret[1] = 0
    /\ pc[2] = "hk_format" /\ is_logging[2]
    /\ Len(ingested) = 1
    /\ forwarded = hook_in

----------------------------------------------------------------------------
\* C20: the threshold None disables all output: while the threshold is
\* None, no record of any severity, severity None included, is delivered
\* to any sink.
C20_NoneDisablesAll ==
    [][\A t \in Threads :
          (DispatchFanout(t) /\ global_level = None) => events' = events]_vars

----------------------------------------------------------------------------
\* C21: add_sinker with a null reference leaves the registry unchanged,
\* add_sinker with a non-null reference appends exactly one entry at the
\* end, and so the registry never contains a null entry after any sequence
\* of add_sinker and remove_sinker calls.
C21_AddSinker ==
    /\ [](0 \notin Range(sinkers))
    /\ [][\A s \in RegSinks \cup {0} :
             add_sinker(1, s) =>
                 sinkers' = IF s = 0 THEN sinkers ELSE sinkers \o <<s>>]_vars

\* sinks 1 and 2 were appended in that order, and the add_sinker call with
\* a null reference that followed left the registry as it was
C21_Witness ==
    /\ last_call = [op |-> "add", s |-> 0, before |-> <<1, 2>>]
    /\ sinkers = <<1, 2>>

----------------------------------------------------------------------------
\* seq without the entries at the positions in gone
Without(seq, gone) ==
    LET keep(i) == Cardinality({j \in 1..i : j \notin gone})
    IN  [k \in 1..(Len(seq) - Cardinality(gone)) |->
            seq[CHOOSE i \in 1..Len(seq) : i \notin gone /\ keep(i) = k]]

\* C22: remove_sinker(s) removes every registry entry equal to s and
\* nothing else: the registry afterwards is the registry before with
\* exactly the positions holding s left out, the other entries in their
\* original relative order; if s is absent or null the registry is
\* unchanged.
C22_RemoveSinker ==
    [][\A s \in RegSinks \cup {0} :
          remove_sinker(1, s) =>
              /\ sinkers' =
                     Without(sinkers,
                             {i \in 1..Len(sinkers) : sinkers[i] = s /\ s # 0})
              /\ (s = 0 \/ s \notin Range(sinkers)) => sinkers' = sinkers]_vars

\* sink 3 was registered between sinks 1 and 2 and then removed: 1 and 2
\* remain, in that order
C22_Witness ==
    /\ last_call = [op |-> "remove", s |-> 3, before |-> <<1, 3, 2>>]
    /\ sinkers = <<1, 2>>

----------------------------------------------------------------------------
\* C23: in every reachable state of the ring buffer, under any
\* interleaving of pushes and pops, 0 <= count <= capacity, head and tail
\* are in [0, capacity), and head = (tail + count) mod capacity; a push on
\* a full queue advances tail by one (modulo capacity) and leaves count
\* equal to capacity.
C23_RingInvariant ==
    /\ [](/\ queue.count \in 0..Capacity
          /\ queue.head \in 0..(Capacity - 1)
          /\ queue.tail \in 0..(Capacity - 1)
          /\ queue.head = (queue.tail + queue.count) % Capacity)
    /\ [][(RingPush /\ queue.count = Capacity) =>
             /\ queue'.tail = (queue.tail + 1) % Capacity
             /\ queue'.count = Capacity]_vars

\* three slots, five pushes and no pop: the queue is full, two records
\* were overwritten, and head and tail have both wrapped round to slot 2
C23_Witness ==
    /\ Capacity = 3
    /\ Len(sent) = 5
    /\ queue.count = 3 /\ queue.head = 2 /\ queue.tail = 2
    /\ dropped_count(queue) = 2

----------------------------------------------------------------------------
\* C24: no lost wake-up with a single consumer: under any interleaving of
\* pushes with the one consumer's pops on a binary semaphore, whenever the
\* queue is non-empty and the consumer is not between its semaphore take
\* and the end of that pop, the semaphore is signalled; hence a pop never
\* times out while a record is available.
C24_NoLostWakeup ==
    /\ []((queue.backend /\ ~empty(queue) /\ pc[2] # "pop") => queue.sem = 1)
    /\ [][(RingTake(2) /\ popped' # popped) => empty(queue)]_vars

\* two records were pushed before the consumer's first pop; that pop
\* returned the first and gave the semaphore back for the second
C24_Witness ==
    /\ queue.backend
    /\ pc[2] = "idle"
    /\ push_rets = <<TRUE, TRUE>>
    /\ popped = <<sent[1].m>>
    /\ Contents(queue) = <<sent[2].m>>
    /\ queue.sem = 1

----------------------------------------------------------------------------
(* SpecHookRace: synchronous mode, the hook installed.  Thread 1 writes    *)
(* complete native-log lines, which the hook ingests; thread 2 dispatches  *)
(* records and registers and removes a second sink.                        *)

RaceThreads == {1, 2}

RaceAdd == 2 \notin Range(sinkers) /\ add_sinker(2, 2)

RaceRemove == remove_sinker(2, 2)

RaceLine ==
    /\ Len(hook_in) < MaxRaceLines
    /\ pc[1] = "idle"
    /\ vprintf_hook(1, LineInfo)

RaceDispatch == nextId <= MaxRaceDispatch /\ DispatchCall(2, Info)

RaceNext ==
    \/ HookAdd
    \/ HookPrior
    \/ HookInstall
    \/ RaceLine
    \/ HookForward(1)
    \/ HookProcess(1)
    \/ HookConsume(1)
    \/ RaceDispatch
    \/ DispatchLock(2)
    \/ DispatchFanout(2)
    \/ RaceAdd
    \/ RaceRemove

SpecHookRace == SyncInit /\ [][RaceNext]_vars

----------------------------------------------------------------------------
(* SpecSnapshot: synchronous mode.  Thread 1 dispatches records, its       *)
(* fan-out taken one sink at a time; thread 2 registers and removes two    *)
(* sinks meanwhile.                                                        *)

SnapSinks == {1, 2}

SnapDispatch == nextId <= MaxSnapDispatch /\ DispatchCall(1, Info)

SnapAdd ==
    \E s \in SnapSinks : Len(sinkers) < MaxSnapSinkers /\ add_sinker(2, s)

SnapRemove == \E s \in SnapSinks : remove_sinker(2, s)

SnapNext ==
    \/ SnapDispatch
    \/ DispatchLock(1)
    \/ DispatchConsume(1)
    \/ DispatchReturn(1)
    \/ SnapAdd
    \/ SnapRemove

SpecSnapshot == SyncInit /\ [][SnapNext]_vars

----------------------------------------------------------------------------
(* SpecHookInstall: the application sets a native-log handler of its own   *)
(* or none before the first install; thread 1 then installs and uninstalls *)
(* the hook in any order, any number of times, and the hub's destructor    *)
(* may run; thread 2 writes a native-log line meanwhile.                   *)

InstallPrior ==
    \E h \in Handlers :
        /\ handler_before = NoHandler
        /\ h # vprintf_handler
        /\ esp_log_set_vprintf(1, h)

InstallCall == \E install \in BOOLEAN : hook_esp_log(1, install)

InstallLine ==
    /\ Len(hook_in) < MaxInstallLines
    /\ pc[2] = "idle"
    /\ vprintf_hook(2, LineInfo)

InstallNext ==
    \/ HookAdd
    \/ InstallPrior
    \/ InstallCall
    \/ Sinker_dtor(1)
    \/ InstallLine
    \/ HookForward(2)
    \/ HookProcess(2)
    \/ HookConsume(2)

SpecHookInstall == SyncInit /\ [][InstallNext]_vars

----------------------------------------------------------------------------
(* SpecStop: the worker's cancellation.  Thread 1 dispatches, thread 2     *)
(* calls init and shutdown, again after a shutdown has returned; a task    *)
(* started by an earlier init may still be alive when the next one starts  *)
(* another.  Scheduling is fair: a task or a call that can take its next   *)
(* step eventually takes it (every sink's consume returns, every bounded   *)
(* wait ends); whether and when dispatch, init and shutdown are called is  *)
(* up to the callers.                                                      *)

StopWorkers == {1, 2}

StopInit ==
    /\ Capacity = SmallCap
    /\ g_backend = TRUE
    /\ sinkers = <<1>>
    /\ global_level = Info
    /\ mutex = 0
    /\ queue = NoQueue
    /\ running = FALSE
    /\ shutdown_requested = FALSE
    /\ task = FALSE
    /\ pc = [t \in Threads |-> "idle"]
    /\ msg = [t \in Threads |-> NoMsg]
    /\ wpc = [w \in StopWorkers |-> "none"]
    /\ wmsg = [w \in StopWorkers |-> NoMsg]
    /\ wdrain = [w \in StopWorkers |-> FALSE]
    /\ events = <<>>
    /\ nextId = 1
    /\ popped = <<>>
    /\ uaf = FALSE
    /\ ninit = 0
    /\ last_add = NoAdd
    /\ sent = <<>>
    /\ at_shutdown = <<>>
    /\ last_ret = "none"
    /\ push_rets = <<>>
    /\ handler_before = NoHandler
    /\ last_hook_call = NoCall
    /\ sinker_it = [t \in Threads |-> 1]
    /\ last_call = NoCall
    /\ at_flush = <<>>
    /\ HookConstructed

StopDispatch == nextId <= MaxStopDispatch /\ DispatchCall(1, Info)

StopInitCall == ninit < MaxStopInit /\ init(2)

\* the steps a dispatch call takes after its entry
StopProducerStep ==
    \/ DispatchPush(1)
    \/ DispatchLock(1)
    \/ DispatchFanout(1)

\* the steps init and shutdown take after their entry
StopControllerStep ==
    \/ InitQueue(2)
    \/ InitTaskOk(2)
    \/ InitTaskFail(2)
    \/ ShutdownFlushEmpty(2)
    \/ ShutdownFlushTimeout(2)
    \/ ShutdownStop(2)
    \/ ShutdownRelease(2)

\* the steps of the task w
StopWorkerStep(w) ==
    \/ WorkerLoop(w)
    \/ WorkerTake(w)
    \/ WorkerPop(w)
    \/ WorkerLock(w)
    \/ WorkerFanout(w)

StopNext ==
    \/ StopDispatch
    \/ StopInitCall
    \/ shutdown(2)
    \/ StopProducerStep
    \/ StopControllerStep
    \/ \E w \in StopWorkers : StopWorkerStep(w)

StopFairness ==
    /\ WF_vars(StopProducerStep)
    /\ WF_vars(StopControllerStep)
    /\ \A w \in StopWorkers : WF_vars(StopWorkerStep(w))

SpecStop == StopInit /\ [][StopNext]_vars /\ StopFairness

----------------------------------------------------------------------------
\* the worker w leaves its main loop in this step: it enters the final
\* drain pass, or returns without one
LeavesMainLoop(w) ==
    /\ wpc[w] # "none" /\ wpc[w] # "done" /\ ~wdrain[w]
    /\ wdrain'[w] \/ wpc'[w] = "done"

\* C25: the worker leaves its main loop only in a state where
\* shutdown-requested is true and the queue is empty: while the flag is
\* false it never leaves the loop, and observing the flag while the queue
\* is non-empty keeps it popping and fanning out.  (Stated for the steps
\* taken while the queue exists.)
C25_ExitOnlyWhenDrained ==
    [][\A w \in Workers :
          (queue # NoQueue /\ LeavesMainLoop(w)) =>
              (shutdown_requested /\ empty(queue))]_vars

\* C26: shutdown is effective: after shutdown() has set the
\* shutdown-requested flag and signalled the queue, every worker task
\* alive at that moment eventually reaches Stopped, under fair scheduling
\* and sinks whose consume returns, even if it is blocked in pop on an
\* empty queue.
C26_ShutdownStopsWorker ==
    \A w \in StopWorkers :
        (pc[2] = "sd_flush" /\ wpc[w] \notin {"none", "done"})
            ~> (wpc[w] = "done")

\* the worker tasks that have been created and have not returned
LiveWorkers == {w \in DOMAIN wpc : wpc[w] \notin {"none", "done"}}

\* C27: init and shutdown are race-safe: over any sequence of init and
\* shutdown calls at most one worker task exists at any time.
C27_AtMostOneWorker == Cardinality(LiveWorkers) <= 1

\* C28: every call to a sink's consume is made while the caller holds the
\* sink-registry mutex, on every ingestion path (dispatch and the
\* native-log hook's ingestion entry point), so that no consume call
\* overlaps a registry mutation or another thread's consume call.
C28_ConsumeUnderMutex ==
    [][\A t \in RaceThreads :
          (events' # events /\ pc'[t] # pc[t]) => mutex = t]_vars

\* the records pop has returned so far, in order (a pop that returned
\* nothing is left out)
Returned == SelectSeq(popped, LAMBDA m : m # NoMsg)

\* C29: conservation in the ring buffer: in every reachable state the
\* number of completed pushes equals the number of records returned by
\* pop plus the dropped counter plus the current count; the dropped
\* counter never decreases; and no record is returned by pop twice.
C29_Conservation ==
    /\ [](/\ Len(sent) = Len(Returned) + dropped_count(queue) + size(queue)
          /\ \A i, j \in 1..Len(Returned) :
                 Returned[i] = Returned[j] => i = j)
    /\ [][dropped_count(queue') >= dropped_count(queue)]_vars

\* five records pushed into a queue of capacity 2: two returned by pop,
\* one evicted, two still queued
C29_Witness ==
    /\ Capacity = 2
    /\ Len(sent) = 5
    /\ Len(Returned) = 2
    /\ dropped_count(queue) = 1
    /\ size(queue) = 2

\* C30: the queue is never used outside its lifetime: under any
\* interleaving of dispatch, worker, init and shutdown, no thread pushes
\* to, pops from or queries the queue before init has created it or after
\* shutdown has released it.
C30_QueueLifetime == ~uaf

\* no call is in progress, no worker holds a record, and the queue is
\* absent or empty
Quiescent ==
    /\ \A t \in DOMAIN pc : pc[t] = "idle"
    /\ \A w \in DOMAIN wpc : wpc[w] \in {"none", "loop", "take", "done"}
    /\ IF queue = NoQueue THEN TRUE ELSE empty(queue)

\* the dispatched records no sink has consumed
Unconsumed == {i \in 1..Len(sent) : \A j \in 1..Len(events) : events[j].m # sent[i].m}

\* C31: no record is lost or duplicated across mode changes: under any
\* interleaving of dispatch with init and shutdown, every dispatched
\* record is consumed by the registered sink exactly once or is counted
\* in the dropped counter; it is never delivered twice and, once nothing
\* is in progress any more, never silently discarded.
C31_NoLossNoDup ==
    /\ \A i, j \in 1..Len(events) : events[i] = events[j] => i = j
    /\ Quiescent =>
           Cardinality(Unconsumed) =
               IF queue = NoQueue THEN 0 ELSE dropped_count(queue)

\* the sinks that have consumed record m so far, in call order
ConsumedBy(m) ==
    LET calls == SelectSeq(events, LAMBDA e : e.m = m)
    IN  [i \in 1..Len(calls) |-> calls[i].sink]

\* C32: fan-out sees one registry snapshot: dispatch holds the registry
\* mutex for the whole loop over the sinks, so add_sinker and remove_sinker
\* calls of another thread take effect entirely before or entirely after
\* the fan-out of a record: the registry does not change while the loop
\* runs, the loop has at every point served the registry's entries before
\* its position, and when it returns the record has been consumed by
\* exactly the sinks then registered, once each, in registration order.
C32_Snapshot ==
    /\ [](pc[1] = "fanout" =>
              ConsumedBy(msg[1]) = SubSeq(sinkers, 1, sinker_it[1] - 1))
    /\ [][pc[1] = "fanout" => sinkers' = sinkers]_vars
    /\ [][(pc[1] = "fanout" /\ pc'[1] = "idle") =>
              ConsumedBy(msg[1]) = sinkers']_vars

\* sink 2 was registered after the fan-out of record 1 and before that of
\* record 2, which has just returned
C32_Witness ==
    /\ last_call = [op |-> "add", s |-> 2, before |-> <<1>>]
    /\ pc[1] = "idle"
    /\ Len(sent) = 2
    /\ ConsumedBy(sent[1].m) = <<1>>
    /\ ConsumedBy(sent[2].m) = <<1, 2>>

\* C33: installing and uninstalling the native-log hook is idempotent and
\* round-trips: an install while installed does not overwrite the saved
\* prior handler (nor anything else), an uninstall while not installed
\* does nothing, and after any sequence of install and uninstall calls
\* that ends in an uninstall the platform's handler is the one that was in
\* place before the first install; while installed, the platform's
\* handler is the hook and the saved one is that first handler.
C33_HookRoundTrip ==
    /\ [](handler_before # NoHandler =>
              IF esp_log_hook_installed
              THEN /\ vprintf_handler = VprintfHook
                   /\ original_vprintf = handler_before
              ELSE /\ vprintf_handler = handler_before
                   /\ original_vprintf = nullptr)
    /\ [][(last_hook_call' # last_hook_call
              /\ last_hook_call'.install = esp_log_hook_installed) =>
             UNCHANGED <<original_vprintf, vprintf_handler,
                         esp_log_hook_installed>>]_vars
    /\ [][(last_hook_call' # last_hook_call /\ ~last_hook_call'.install
              /\ handler_before # NoHandler) =>
             (vprintf_handler' = handler_before
                 /\ ~esp_log_hook_installed')]_vars

\* the application's own handler was in place before the first install;
\* an uninstall of the installed hook has just put it back
C33_Witness ==
    /\ handler_before = AppHandler
    /\ last_hook_call = [install |-> FALSE, installed |-> TRUE,
                         saved |-> AppHandler, handler |-> VprintfHook]
    /\ vprintf_handler = AppHandler
    /\ original_vprintf = nullptr
    /\ ~esp_log_hook_installed

====
